---- MODULE Spec2Model ----
(***************************************************************************)
(* State-machine model of the MCP web client: the connection objects of    *)
(* services/streamable-http.ts (SSE and WebSocket transports) and of its   *)
(* streaming-HTTP variant, the StreamableMCPServerService wrapper and the  *)
(* server store (stores/index.ts).                                         *)
(*                                                                         *)
(* Every async function is a process: each `await` is a suspension point   *)
(* and the code after it is a separate resumption action.  Network events  *)
(* (open, message, error, close, fetch responses, timers) are actions of   *)
(* the environment.                                                        *)
(***************************************************************************)
EXTENDS Integers, Sequences, FiniteSets, TLC

\* ---------------------------------------------------------------- bounds
\* servers that can ever be added to the store
NumServers == 1
\* StreamableMCPServerService objects that can ever be constructed
MaxServices == 2
\* request() calls per connection object
MaxRequests == 2
\* disconnectServer() calls suspended at their await at the same time
MaxDisconnects == 1
\* requests the users of getConnection() issue, over all services
MaxServiceRequests == 1
\* unclean socket closes in a row, on one connection, in the runs of the store
MaxUncleanCloses == 1
\* connect() calls on the SDK-backed client
MaxSdkConnects == 2
\* tool calls in one executeMultipleTools() batch
MaxCalls == 2
\* executeMultipleTools() batches in one run
MaxBatches == 2
\* characters in a server name and in a tool name
MaxServerNameLen == 2
MaxToolNameLen == 3
\* the largest ceiling and the largest base delay (ms) a socket is configured with
MaxConfiguredAttempts == 2
MaxConfiguredDelay == 2
\* handler functions onNotification() is called with, and params values of
\* notification frames, where notifications are looked at closely
MaxHandlers == 2
MaxParams == 2
MaxBlocks == 2
MaxListed == 2
MaxListCalls == 2
MaxToolIndexes == 2
MaxDeltas == 3
NumRegistered == 3
MaxRegistryConnects == 1

\* ------------------------------------------------------ program constants
\* createStreamableConnection: reconnectAttempts: 5
ReconnectCeiling == 5
\* createStreamableConnection: reconnectDelay: 1000
ReconnectDelay == 1000
\* shouldReconnect: this.config.reconnectAttempts || 5
DefaultReconnectAttempts == 5
\* attemptReconnect: this.config.reconnectDelay || 1000
DefaultReconnectDelay == 1000
\* StreamableHTTPConnection.connect: the initialize call is written with id: 1
InitializeId == 1

ServerIds == 1..NumServers
Services == 1..MaxServices
RequestSeqs == 1..MaxRequests
\* ids a frame can carry: every id request() can issue, and one it never issues
FrameIds == 1..(MaxRequests + 1)
\* Map objects alive at once: the store's, one per suspended call, one being built
MapIds == 1..(MaxServices + MaxDisconnects + 2)
Methods == {"notify"}
\* the methods of notifications, where notifications are looked at closely
NotifyMethods == Methods \cup {"progress"}

LifecycleStatus == {"disconnected", "connecting", "connected", "error"}
Transports == {"sse", "websocket", "http"}

\* Inbound JSON-RPC frames: responses (id, result | error), notifications (method, no id)
Frames ==
    [id : FrameIds, method : {""}, params : {0}, isError : BOOLEAN]
    \cup [id : {0}, method : Methods, params : {0}, isError : {FALSE}]

\* the same with more notifications: two methods, several params
NotifyFrames ==
    Frames \cup [id : {0}, method : NotifyMethods, params : 0..MaxParams, isError : {FALSE}]

VARIABLES
    servers,          \* store.servers: server id -> status ("none" before addServer, "removed" after removeServer)
    activeServers,    \* store.activeServers
    connections,      \* store.connections: the Map object the store currently holds
    maps,             \* the Map objects: MapId -> (server id -> service, 0 = no entry)
    conn,             \* the connection object of each service
    connectCalls,     \* connectServer() invocations, one per constructed service
    disconnectCalls,  \* disconnectServer() invocations suspended at `await connection.disconnect()`
    disconnectReturned, \* server id -> a disconnectServer(id) issued in a non-disconnected state has
                      \* returned and no other store operation on id has run since
    client,           \* an MCPClientService of mcp-tool-handler.ts (the SDK-backed client)
    handler,          \* MCPToolHandler: one executeMultipleTools() call and the connection cache
    naming,           \* one tool name on its way through getAvailableTools and executeTool
    chat,             \* one LLMService.chatStream() call: the body, the generator, the reader
    listing,          \* MCPToolHandler.getAvailableTools calls, the registry and the client cache
    turn,             \* the tool calls of one streamed completion in ChatInterface
    registry          \* useMCPServerStore: servers and connections, several servers

\* the tool handler's part of the state
toolVars == <<handler, naming, chat, listing, turn, registry>>

vars == <<servers, activeServers, connections, maps, conn, connectCalls, disconnectCalls,
          disconnectReturned, client, toolVars>>

\* ------------------------------------------------- StreamableHttpConnection

NoRequest == [id |-> 0, promise |-> "none", handled |-> 0, frame |-> 0, session |-> 0]

\* field initialisers of the class, before the constructor is run; config is
\* the one createStreamableConnection builds, delay the delay of the armed timer,
\* wire the requests whose frame was handed to the network (socket send or POST)
NewConnection == [
    transport |-> "none",
    config |-> [reconnectAttempts |-> ReconnectCeiling, reconnectDelay |-> ReconnectDelay],
    delay |-> 0,
    server |-> 0,
    isConnected |-> FALSE,
    channel |-> "undefined",
    orphan |-> "none",
    connectPromise |-> "none",
    reconnectAttempts |-> 0,
    timer |-> FALSE,
    disconnected |-> FALSE,
    sessionId |-> 0,
    handshake |-> "none",
    handshakeId |-> 0,
    requestId |-> 1,
    messageHandlers |-> [i \in FrameIds |-> 0],
    notificationHandlers |-> [m \in NotifyMethods |-> 0],
    notified |-> 0,
    lastNotification |-> [handler |-> 0, params |-> 0],
    requests |-> [n \in RequestSeqs |-> NoRequest],
    sending |-> {},
    wire |-> {}
]

\* number of request() calls made on the connection so far
Issued(c) == Cardinality({n \in RequestSeqs : c.requests[n].promise # "none"})

\* settle a promise: the first resolve/reject wins, later ones are ignored
Settle(promise, outcome) == IF promise = "pending" THEN outcome ELSE promise

\* generateRequestId: return this.requestId++
GenerateRequestId(c) == [c EXCEPT !.requestId = c.requestId + 1]

\* the handler closure request() stores: rejects on response.error, else resolves
InvokeHandler(c, n, msg) ==
    [c EXCEPT !.requests[n] = [@ EXCEPT
        !.handled = IF @ < 2 THEN @ + 1 ELSE @,
        !.frame = msg.id,
        !.promise = Settle(@, IF msg.isError THEN "rejectedRemote" ELSE "resolved")]]

\* handler(message.params) for a handler onNotification() stored; notified counts
\* the invocations (up to 2), lastNotification is the latest of them
InvokeNotificationHandler(c, h, msg) ==
    [c EXCEPT !.notified = IF @ < 2 THEN @ + 1 ELSE @,
              !.lastNotification = [handler |-> h, params |-> msg.params]]

\* handleMessage that hands a notification to whichever handler it finds
HandleMessageAnyHandler(c, msg) ==
    IF msg.id # 0 /\ c.messageHandlers[msg.id] # 0
    THEN InvokeHandler([c EXCEPT !.messageHandlers[msg.id] = 0],
                       c.messageHandlers[msg.id], msg)
    ELSE IF msg.method # "" /\ \E m \in NotifyMethods : c.notificationHandlers[m] # 0
         THEN InvokeNotificationHandler(c,
                  c.notificationHandlers[CHOOSE m \in NotifyMethods :
                                             c.notificationHandlers[m] # 0], msg)
         ELSE c

\* handleMessage that leaves the handler in the table after invoking it
HandleMessageKeepsHandler(c, msg) ==
    IF msg.id # 0 /\ c.messageHandlers[msg.id] # 0
    THEN InvokeHandler(c, c.messageHandlers[msg.id], msg)
    ELSE IF msg.method # "" /\ c.notificationHandlers[msg.method] # 0
         THEN InvokeNotificationHandler(c, c.notificationHandlers[msg.method], msg)
         ELSE c

\* handleMessage(message)
HandleMessage(c, msg) ==
    IF msg.id # 0 /\ c.messageHandlers[msg.id] # 0
    THEN InvokeHandler([c EXCEPT !.messageHandlers[msg.id] = 0],
                       c.messageHandlers[msg.id], msg)
    ELSE IF msg.method # "" /\ c.notificationHandlers[msg.method] # 0
         THEN InvokeNotificationHandler(c, c.notificationHandlers[msg.method], msg)
         ELSE c

\* send(message) without its guards
SendOutcomeUnguarded(c) ==
    CASE c.transport = "websocket" -> "sent"
      [] OTHER -> "fetch"

\* send(message) up to its first await: "throw" when the guard throws, "sent" when
\* the frame went out synchronously (socket), "fetch" when a POST is now in flight
SendOutcome(c) ==
    CASE c.transport = "websocket" ->
            IF ~c.isConnected \/ c.channel = "undefined" THEN "throw"
            ELSE IF c.channel = "open" THEN "sent" ELSE "throw"
      [] OTHER ->
            IF ~c.isConnected THEN "throw" ELSE "fetch"

\* the Mcp-Session-Id header send() writes: the streaming-HTTP transport adds it
\* when a session id is set, the other transports never (0: no header)
SessionHeader(c) == IF c.transport = "http" THEN c.sessionId ELSE 0

\* request(method, params): take an id, register the handler, send; a rejected send
\* rejects the promise (the handler stays registered)
Request(c) ==
    LET n == Issued(c) + 1
        id == c.requestId
        c1 == GenerateRequestId(c)
        c2 == [c1 EXCEPT !.messageHandlers[id] = n,
                         !.requests[n] = [id |-> id, promise |-> "pending",
                                          handled |-> 0, frame |-> 0, session |-> 0]]
        out == SendOutcome(c2)
    IN  CASE out = "throw" -> [c2 EXCEPT !.requests[n].promise = "rejectedNotOpen"]
          [] out = "fetch" -> [c2 EXCEPT !.sending = @ \cup {n}, !.wire = @ \cup {n},
                                         !.requests[n].session = SessionHeader(c2)]
          [] OTHER -> [c2 EXCEPT !.wire = @ \cup {n}]

\* onNotification(method, handler)
OnNotification(c, method, h) ==
    [c EXCEPT !.notificationHandlers[method] = h]

\* the body of connect(): new EventSource / new WebSocket / new AbortController and
\* the initialize fetch; a constructor that throws leaves the channel as it was
OpenChannel(c, constructed) ==
    IF constructed \/ c.transport = "http"
    THEN [c EXCEPT !.channel = "connecting",
                   !.handshakeId = IF c.transport = "http" THEN InitializeId ELSE @]
    ELSE c

\* connect() as awaited by the service: the promise it returns is pending, or
\* rejected at once when the constructor threw
Connect(c, constructed) ==
    [OpenChannel(c, constructed) EXCEPT !.connectPromise =
        IF constructed \/ c.transport = "http" THEN "pending" ELSE "rejectedOther"]

\* what is left of a WebSocket that disconnect() closed and dropped: its events are
\* still delivered to the handlers of this connection (error and an unclean close
\* for a socket that was connecting, a close for one that was open)
OrphanOf(channel) ==
    CASE channel = "connecting" -> "failing"
      [] channel = "open" -> "closing"
      [] OTHER -> "none"

\* disconnect() losing track of the socket an earlier call dropped
DisconnectForgetsOrphan(c) ==
    [c EXCEPT !.channel = "undefined",
              !.orphan = IF c.transport = "websocket" THEN OrphanOf(c.channel) ELSE @,
              !.isConnected = FALSE]

\* disconnect(): close and drop the channel, isConnected = false
Disconnect(c) ==
    [c EXCEPT !.channel = "undefined",
              !.orphan = IF c.transport = "websocket" /\ c.channel # "undefined"
                         THEN OrphanOf(c.channel) ELSE @,
              !.isConnected = FALSE]

\* configured || fallback, for numbers: 0 is falsy
OrDefault(configured, fallback) == IF configured = 0 THEN fallback ELSE configured

\* WebSocketConnection.shouldReconnect
ShouldReconnect(c) ==
    c.reconnectAttempts < OrDefault(c.config.reconnectAttempts, DefaultReconnectAttempts)

\* attemptReconnect with a delay that grows by the base delay each time
AttemptReconnectLinear(c) ==
    [c EXCEPT !.reconnectAttempts = @ + 1,
              !.timer = TRUE,
              !.delay = OrDefault(c.config.reconnectDelay, DefaultReconnectDelay)
                            * (c.reconnectAttempts + 1)]

\* WebSocketConnection.attemptReconnect: count the attempt and arm the timer
AttemptReconnect(c) ==
    [c EXCEPT !.reconnectAttempts = @ + 1,
              !.timer = TRUE,
              !.delay = OrDefault(c.config.reconnectDelay, DefaultReconnectDelay)
                            * 2 ^ (c.reconnectAttempts + 1 - 1)]

\* websocket.onclose
OnClose(c, wasClean) ==
    LET c1 == [c EXCEPT !.isConnected = FALSE]
    IN  IF ~wasClean /\ ShouldReconnect(c1) THEN AttemptReconnect(c1) ELSE c1

\* websocket.onopen / eventSource.onopen
OnOpen(c) ==
    [c EXCEPT !.isConnected = TRUE,
              !.channel = "open",
              !.reconnectAttempts = IF c.transport = "websocket" THEN 0 ELSE @,
              !.connectPromise = Settle(@, "resolved")]

\* eventSource.onerror: isConnected = false; reject only when readyState is CLOSED
OnSSEError(c, closed) ==
    [c EXCEPT !.isConnected = FALSE,
              !.channel = IF closed THEN "closed" ELSE "connecting",
              !.connectPromise = IF closed THEN Settle(@, "rejectedOther") ELSE @]

\* websocket.onerror: reject
OnWSError(c) == [c EXCEPT !.connectPromise = Settle(@, "rejectedOther")]

\* the handshake continuation without the check for a session id
OnInitResponseWithoutSessionCheck(c, outcome, msg) ==
    CASE outcome = "httpError" ->
            [c EXCEPT !.channel = "closed", !.connectPromise = Settle(@, "rejectedHttp")]
      [] outcome = "network" ->
            [c EXCEPT !.channel = "closed", !.connectPromise = Settle(@, "rejectedOther")]
      [] outcome = "badBody" ->
            [c EXCEPT !.channel = "closed", !.sessionId = 1,
                      !.connectPromise = Settle(@, "rejectedOther")]
      [] OTHER ->
            [HandleMessage([c EXCEPT !.sessionId = IF outcome = "noSession" THEN 0 ELSE 1],
                           msg) EXCEPT
                      !.handshake = IF msg.id # 0 /\ ~msg.isError THEN "result" ELSE "other",
                      !.isConnected = TRUE,
                      !.channel = "open",
                      !.connectPromise = Settle(@, "resolved")]

\* StreamableHTTPConnection.connect, the .then/.catch of the initialize fetch;
\* handshake records what the body of an ok response was (a JSON-RPC result or not)
OnInitResponse(c, outcome, msg) ==
    CASE outcome = "httpError" ->
            [c EXCEPT !.channel = "closed", !.connectPromise = Settle(@, "rejectedHttp")]
      [] outcome = "network" ->
            [c EXCEPT !.channel = "closed", !.connectPromise = Settle(@, "rejectedOther")]
      [] outcome = "noSession" ->
            [c EXCEPT !.channel = "closed", !.connectPromise = Settle(@, "rejectedOther")]
      [] outcome = "badBody" ->
            [c EXCEPT !.channel = "closed", !.sessionId = 1,
                      !.connectPromise = Settle(@, "rejectedOther")]
      [] OTHER ->
            [HandleMessage([c EXCEPT !.sessionId = 1], msg) EXCEPT
                      !.handshake = IF msg.id # 0 /\ ~msg.isError THEN "result" ELSE "other",
                      !.isConnected = TRUE,
                      !.channel = "open",
                      !.connectPromise = Settle(@, "resolved")]

\* send(message) after `await fetch(...)`: a non-ok response throws, which rejects
\* the request; the streaming-HTTP send hands the response body to handleMessage
OnSendResponse(c, n, ok, msg) ==
    LET c1 == [c EXCEPT !.sending = @ \ {n}]
    IN  IF ~ok THEN [c1 EXCEPT !.requests[n].promise = Settle(@, "rejectedHttp")]
        ELSE IF c.transport = "http" THEN HandleMessage(c1, msg)
        ELSE c1

\* ------------------------------------------------------------ store heap

EmptyMap == [i \in ServerIds |-> 0]

IdleCall == [pc |-> "idle", id |-> 0, map |-> 0, req |-> 0, result |-> FALSE,
             statusSets |-> <<>>]

\* the Map objects something still refers to
Referenced(store, calls, dcalls) ==
    {store}
    \cup {calls[s].map : s \in {x \in Services : calls[x].map # 0}}
    \cup {dcalls[i].map : i \in DOMAIN dcalls}

\* new Map(): the least Map object nothing refers to
FreshMap(store, calls, dcalls) ==
    CHOOSE m \in MapIds \ Referenced(store, calls, dcalls) :
        \A k \in MapIds \ Referenced(store, calls, dcalls) : m <= k

\* garbage collection: a Map object nothing refers to holds nothing
Collect(heap, store, calls, dcalls) ==
    [m \in MapIds |-> IF m \in Referenced(store, calls, dcalls) THEN heap[m] ELSE EmptyMap]

\* servers.map(s => s.id === id ? { ...s, status } : s)
SetServerStatus(srv, id, status) ==
    IF srv[id] \in LifecycleStatus THEN [srv EXCEPT ![id] = status] ELSE srv

\* getConnection(id): get().connections.get(id)
GetConnection(id) == maps[connections][id]

\* new StreamableMCPServerService(server, transport): the next unused object
NextService == CHOOSE s \in Services :
    conn[s].transport = "none" /\ \A k \in Services : conn[k].transport = "none" => s <= k

\* ------------------------------------- MCPClientService (mcp-tool-handler.ts)

\* field initialisers and constructor; callbacks and result are those of the
\* latest connect(), failure is why its client.connect(transport) rejected
NewClient == [isConnected |-> FALSE, connectPc |-> "idle", closePc |-> "idle",
              connects |-> 0, callbacks |-> <<>>, result |-> "none", failure |-> "none"]

\* ------------------------------------------------------------ MCPToolHandler
\* Two implementations of the handler exist: the orchestrator kept with the
\* stores (it caches MCPClientService objects and separates names with "__")
\* and the store-based one of mcp-tool-handler.ts (it uses the store's
\* connections and separates names with "_").  Strings are sequences of
\* characters.

Impls == {"orchestrator", "store"}

Separator(impl) == IF impl = "orchestrator" THEN <<"_", "_">> ELSE <<"_">>

\* String.prototype.indexOf: the first position where sep occurs in str, 0 if none
IndexOf(str, sep) ==
    LET hits == {i \in 1..(Len(str) - Len(sep) + 1) : SubSeq(str, i, i + Len(sep) - 1) = sep}
    IN  IF hits = {} THEN 0 ELSE CHOOSE i \in hits : \A j \in hits : i <= j

\* String.prototype.split with a non-empty string separator
RECURSIVE Split(_, _)
Split(str, sep) ==
    LET i == IndexOf(str, sep)
    IN  IF i = 0 THEN <<str>>
        ELSE <<SubSeq(str, 1, i - 1)>> \o Split(SubSeq(str, i + Len(sep), Len(str)), sep)

\* Array.prototype.join
RECURSIVE Join(_, _)
Join(parts, sep) ==
    IF Len(parts) = 0 THEN <<>>
    ELSE IF Len(parts) = 1 THEN parts[1]
    ELSE parts[1] \o sep \o Join(Tail(parts), sep)

\* getAvailableTools: the name a tool is offered under
NamespacedName(impl, serverName, toolName) == serverName \o Separator(impl) \o toolName

\* executeTool taking the second part alone for the tool
SplitToolNameSecondPartOnly(impl, name) ==
    LET parts == Split(name, Separator(impl))
    IN  [valid      |-> impl = "orchestrator" \/ Len(parts) >= 2,
         serverName |-> parts[1],
         toolName   |-> IF Len(parts) >= 2 THEN parts[2] ELSE <<>>]

\* executeTool: the first part is the server, the remaining parts joined again
\* are the tool; the store-based handler refuses a name without a separator
SplitToolName(impl, name) ==
    LET parts == Split(name, Separator(impl))
    IN  [valid      |-> impl = "orchestrator" \/ Len(parts) >= 2,
         serverName |-> parts[1],
         toolName   |-> Join(Tail(parts), Separator(impl))]

\* the servers of the store, by name
KnownServers == {<<"a">>, <<"b">>}
\* the servers the store holds a connection for (getConnection finds one)
StoreConnections == {<<"a">>}

\* the tool calls a batch is made of; the handler never looks into an id, so
\* the ids of a batch are taken distinct and named after the place of the call
\* (place i carries id n + 1 - i, so that no id equals the place it is in when
\* n is even)
CallNames == {<<"a", "_", "_", "t">>, <<"b", "_", "_", "t">>, <<"c", "_", "_", "t">>}
CallArguments == {"{}", "{"}
Requested == [name : CallNames, arguments : CallArguments]
Batches ==
    UNION {{[i \in 1..n |-> [id |-> n + 1 - i, name |-> r[i].name, arguments |-> r[i].arguments]] :
              r \in [1..n -> Requested]} : n \in 0..MaxCalls}

\* a result entry; hasError tells whether the error field is present
ResultEntry(toolCall, result) ==
    [toolCallId |-> toolCall.id, result |-> result, hasError |-> FALSE, error |-> ""]
ErrorEntry(toolCall, result, message) ==
    [toolCallId |-> toolCall.id, result |-> result, hasError |-> TRUE, error |-> message]
NoEntry == [toolCallId |-> 0, result |-> "", hasError |-> FALSE, error |-> ""]

Pending == [status |-> "pending", value |-> NoEntry, reason |-> ""]
Fulfilled(entry) == [status |-> "fulfilled", value |-> entry, reason |-> ""]

\* no executeMultipleTools() call made yet; cache is the module's connections
\* map; failed is history: the calls that did not get a result from their tool
NoBatch == [impl |-> "none", calls |-> <<>>, pc |-> <<>>, settled |-> <<>>, order |-> <<>>,
            failed |-> {}, cache |-> [s \in KnownServers |-> "none"],
            batches |-> 0, resolved |-> FALSE, results |-> <<>>]

\* JSON.parse of the arguments
ParsesAsJson(arguments) == arguments = "{}"

\* executeTool up to its first await, for the orchestrator: where the call
\* waits, or the entry it returns at once
OrchestratorStart(h, toolCall) ==
    LET split == SplitToolName("orchestrator", toolCall.name)
    IN  IF split.serverName \notin KnownServers
        THEN [pc |-> "done",
              entry |-> ErrorEntry(toolCall, "Error: Server not found", "Server not found")]
        ELSE IF h.cache[split.serverName] = "none"
        THEN [pc |-> "connect", entry |-> NoEntry]
        ELSE IF h.cache[split.serverName] = "failed"
        THEN [pc |-> "done",
              entry |-> ErrorEntry(toolCall, "Error: Not connected to MCP server",
                                   "Not connected to MCP server")]
        ELSE [pc |-> "call", entry |-> NoEntry]

\* executeTool up to its first await, for the store-based handler
StoreStart(h, toolCall) ==
    LET split == SplitToolName("store", toolCall.name)
        failed(message) == [pc |-> "done", entry |-> ErrorEntry(toolCall, "null", message)]
    IN  IF ~split.valid THEN failed("Invalid tool name format")
        ELSE IF split.serverName \notin KnownServers THEN failed("Server not found")
        ELSE IF split.serverName \notin StoreConnections THEN failed("No connection to server")
        ELSE IF ~ParsesAsJson(toolCall.arguments) THEN failed("Invalid arguments format")
        ELSE [pc |-> "call", entry |-> NoEntry]

ExecuteToolStart(h, toolCall) ==
    IF h.impl = "orchestrator" THEN OrchestratorStart(h, toolCall) ELSE StoreStart(h, toolCall)

\* what the tools/call request of the connection ends with
CallOutcomes == {"result", "rpcError", "sendFailed"}

\* MCPClientService.callTool: a failed request is caught and returned as content
ClientCallTool(outcome) ==
    IF outcome = "result" THEN "{content, error: false}" ELSE "{content: Error calling tool, error: true}"

\* executeTool after callTool has settled
ExecuteToolReturn(h, toolCall, outcome) ==
    IF h.impl = "orchestrator"
    THEN ResultEntry(toolCall, ClientCallTool(outcome))
    ELSE IF outcome = "result" THEN ResultEntry(toolCall, "{content}")
    ELSE IF outcome = "rpcError" THEN ErrorEntry(toolCall, "null", "message (code)")
    ELSE ErrorEntry(toolCall, "null", "Failed to send message")

\* executeMultipleTools in completion order: the i-th entry is the i-th to settle
AllSettledResultsInCompletionOrder(h) ==
    [i \in 1..Len(h.order) |-> h.settled[h.order[i]].value]

\* executeMultipleTools: the outcomes of Promise.allSettled, in the order of
\* the calls, each turned into an entry
AllSettledResults(h) ==
    [i \in 1..Len(h.calls) |->
        IF h.settled[i].status = "fulfilled" /\ h.settled[i].value # NoEntry
        THEN h.settled[i].value
        ELSE ErrorEntry(h.calls[i], "null",
                        IF h.settled[i].reason # "" THEN h.settled[i].reason
                        ELSE "Tool execution failed")]

\* one executeTool promise settles; the batch resolves with the last of them
SettleCall(h, i, pc, entry) ==
    LET h1 == [h EXCEPT !.pc[i] = pc,
                        !.settled[i] = IF pc = "done" THEN Fulfilled(entry) ELSE @,
                        !.failed = IF pc = "done" /\ h.pc[i] = "start" THEN @ \union {i} ELSE @,
                        !.order = IF pc = "done" THEN Append(@, i) ELSE @]
    IN  IF \A j \in 1..Len(h1.calls) : h1.settled[j].status # "pending"
        THEN [h1 EXCEPT !.resolved = TRUE, !.results = AllSettledResults(h1)]
        ELSE h1

RECURSIVE StartCalls(_, _)
\* toolCalls.map(executeTool): every call runs to its first await, in order
StartCalls(h, i) ==
    IF i > Len(h.calls) THEN h
    ELSE LET start == ExecuteToolStart(h, h.calls[i])
         IN  StartCalls(SettleCall(h, i, start.pc, start.entry), i + 1)

\* the characters of names: the one the separators are made of, and another
Chars == {"x", "_"}
Strings(maxLen) == UNION {[1..n -> Chars] : n \in 0..maxLen}

\* no tool name under way
NoNaming == [impl |-> "none", server |-> <<>>, tool |-> <<>>, stage |-> "none",
             name |-> <<>>, serverName |-> <<>>, toolName |-> <<>>]

\* ------------------------------------------------- LLMService.chatStream
\* The response body is a sequence of bytes, one string per byte; the only
\* bytes above ASCII are the two of a two-byte UTF-8 character.

LineFeed == "\n"
Whitespace == {" ", "\n", "\r"}
DataPrefix == <<"d", "a", "t", "a", ":">>
Sentinel == <<"[", "D", "O", "N", "E", "]">>

\* the pieces a response body is made of: a well-formed event, a well-formed
\* event with CRLF line ends and a space after the colon, an event whose data
\* is not JSON, the end-of-stream event, a line that is neither data nor
\* blank followed by a blank line
Blocks ==
    [good      |-> <<"d", "a", "t", "a", ":", "1", "\n", "\n">>,
     goodCRLF  |-> <<"d", "a", "t", "a", ":", " ", "[", "1", "]", "\r", "\n", "\r", "\n">>,
     malformed |-> <<"d", "a", "t", "a", ":", " ", "c3", "a9", "\n", "\n">>,
     done      |-> <<"d", "a", "t", "a", ":", " ", "[", "D", "O", "N", "E", "]", "\n", "\n">>,
     other     |-> <<"x", "\n", "\n">>]
BlockKinds == DOMAIN Blocks

\* what a body may end with after its last complete piece: nothing, a bare
\* JSON text, a data line that is not terminated, a data line without the
\* blank line that ends its event
Residuals ==
    [none     |-> <<>>,
     bare     |-> <<"1">>,
     dataOpen |-> <<"d", "a", "t", "a", ":", "1">>,
     dataLine |-> <<"d", "a", "t", "a", ":", "1", "\n">>]
ResidualKinds == DOMAIN Residuals

RECURSIVE Concat(_)
Concat(kinds) == IF kinds = <<>> THEN <<>> ELSE Blocks[Head(kinds)] \o Concat(Tail(kinds))

\* the bytes of the body
StreamOf(kinds, residual) == Concat(kinds) \o Residuals[residual]

BlockSeqs == UNION {[1..n -> BlockKinds] : n \in 0..MaxBlocks}

\* String.prototype.trimStart / trimEnd / trim
RECURSIVE TrimStart(_)
TrimStart(s) == IF s # <<>> /\ Head(s) \in Whitespace THEN TrimStart(Tail(s)) ELSE s

RECURSIVE TrimEnd(_)
TrimEnd(s) ==
    IF s # <<>> /\ s[Len(s)] \in Whitespace THEN TrimEnd(SubSeq(s, 1, Len(s) - 1)) ELSE s

Trim(s) == TrimEnd(TrimStart(s))

\* String.prototype.startsWith
StartsWith(s, prefix) == Len(s) >= Len(prefix) /\ SubSeq(s, 1, Len(prefix)) = prefix

\* line.replace(/\r$/, '')
StripCR(line) ==
    IF line # <<>> /\ line[Len(line)] = "\r" THEN SubSeq(line, 1, Len(line) - 1) ELSE line

\* decoder.decode(value, {stream: true}): pending is the lead byte the
\* decoder holds back ("" when none); an ill-formed sequence decodes to U+FFFD
DecodeBytes(pending, bytes) ==
    LET all == (IF pending = "" THEN <<>> ELSE <<pending>>) \o bytes
        n == Len(all)
        decoded == [i \in 1..n |->
                      CASE all[i] = "c3" ->
                              IF i = n \/ all[i + 1] = "a9" THEN "" ELSE "U+FFFD"
                        [] all[i] = "a9" ->
                              IF i > 1 /\ all[i - 1] = "c3" THEN "e-acute" ELSE "U+FFFD"
                        [] OTHER -> all[i]]
    IN  [chars   |-> SelectSeq(decoded, LAMBDA ch : ch # ""),
         pending |-> IF n > 0 /\ all[n] = "c3" THEN "c3" ELSE ""]

\* JSON.parse accepts the text: over the characters of the bodies, a number
\* or an array of at most one value, with white space around the values
RECURSIVE IsJson(_)
IsJson(text) ==
    LET t == Trim(text)
    IN  /\ t # <<>>
        /\ \/ \A i \in 1..Len(t) : t[i] = "1"
           \/ /\ Len(t) >= 2 /\ Head(t) = "[" /\ t[Len(t)] = "]"
              /\ LET inner == SubSeq(t, 2, Len(t) - 1)
                 IN  Trim(inner) = <<>> \/ IsJson(inner)

\* JSON.parse: the value, written without its insignificant white space
JsonParse(text) == SelectSeq(text, LAMBDA ch : ch \notin Whitespace)

\* the generator before it is called
NoChat == [kinds |-> <<>>, residual |-> "none", pos |-> 0, pc |-> "idle",
           reader |-> "none", cancelled |-> FALSE, pending |-> "",
           buffer |-> <<>>, eventData |-> <<>>, events |-> <<>>, cause |-> "none"]

\* the inner loop without the check for '[DONE]': the mark goes to JSON.parse,
\* fails there and is skipped
RECURSIVE ProcessLinesIgnoringDone(_)
ProcessLinesIgnoringDone(d) ==
    LET i == IndexOf(d.buffer, <<LineFeed>>)
    IN  IF i = 0 THEN [d EXCEPT !.pc = "read"]
        ELSE LET line == StripCR(SubSeq(d.buffer, 1, i - 1))
                 d1 == [d EXCEPT !.buffer = SubSeq(@, i + 1, Len(@))]
             IN  IF StartsWith(line, DataPrefix)
                 THEN ProcessLinesIgnoringDone(
                        [d1 EXCEPT !.eventData =
                            @ \o TrimStart(SubSeq(line, 6, Len(line))) \o <<LineFeed>>])
                 ELSE IF Trim(line) = <<>>
                 THEN LET data == Trim(d.eventData)
                          d2 == [d1 EXCEPT !.eventData = <<>>]
                      IN  IF data = <<>> THEN ProcessLinesIgnoringDone(d2)
                          ELSE IF IsJson(data)
                          THEN [d2 EXCEPT !.events = Append(@, JsonParse(data)),
                                          !.pc = "yielded"]
                          ELSE ProcessLinesIgnoringDone(d2)
                 ELSE ProcessLinesIgnoringDone(d1)

\* the inner loop without the catch around JSON.parse: an event that does not
\* parse ends the generator
RECURSIVE ProcessLinesStoppingAtBadJson(_)
ProcessLinesStoppingAtBadJson(d) ==
    LET i == IndexOf(d.buffer, <<LineFeed>>)
    IN  IF i = 0 THEN [d EXCEPT !.pc = "read"]
        ELSE LET line == StripCR(SubSeq(d.buffer, 1, i - 1))
                 d1 == [d EXCEPT !.buffer = SubSeq(@, i + 1, Len(@))]
             IN  IF StartsWith(line, DataPrefix)
                 THEN ProcessLinesStoppingAtBadJson(
                        [d1 EXCEPT !.eventData =
                            @ \o TrimStart(SubSeq(line, 6, Len(line))) \o <<LineFeed>>])
                 ELSE IF Trim(line) = <<>>
                 THEN LET data == Trim(d.eventData)
                          d2 == [d1 EXCEPT !.eventData = <<>>]
                      IN  IF data = <<>> THEN ProcessLinesStoppingAtBadJson(d2)
                          ELSE IF data = Sentinel
                          THEN [d2 EXCEPT !.pc = "finally", !.cause = "sentinel"]
                          ELSE IF IsJson(data)
                          THEN [d2 EXCEPT !.events = Append(@, JsonParse(data)),
                                          !.pc = "yielded"]
                          ELSE [d2 EXCEPT !.pc = "finally", !.cause = "parseError"]
                 ELSE ProcessLinesStoppingAtBadJson(d1)

\* the inner while loop, from its test to the next suspension: no line left
\* in the buffer (back to reader.read()), a yield, or the return at '[DONE]'
RECURSIVE ProcessLines(_)
ProcessLines(d) ==
    LET i == IndexOf(d.buffer, <<LineFeed>>)
    IN  IF i = 0 THEN [d EXCEPT !.pc = "read"]
        ELSE LET line == StripCR(SubSeq(d.buffer, 1, i - 1))
                 d1 == [d EXCEPT !.buffer = SubSeq(@, i + 1, Len(@))]
             IN  IF StartsWith(line, DataPrefix)
                 THEN ProcessLines(
                        [d1 EXCEPT !.eventData =
                            @ \o TrimStart(SubSeq(line, 6, Len(line))) \o <<LineFeed>>])
                 ELSE IF Trim(line) = <<>>
                 THEN LET data == Trim(d.eventData)
                          d2 == [d1 EXCEPT !.eventData = <<>>]
                      IN  IF data = <<>> THEN ProcessLines(d2)
                          ELSE IF data = Sentinel
                          THEN [d2 EXCEPT !.pc = "finally", !.cause = "sentinel"]
                          ELSE IF IsJson(data)
                          THEN [d2 EXCEPT !.events = Append(@, JsonParse(data)),
                                          !.pc = "yielded"]
                          ELSE ProcessLines(d2)
                 ELSE ProcessLines(d1)

\* a chunk taking the place of what the buffer held
OnChunkDroppingBuffer(d, value) ==
    LET dec == DecodeBytes(d.pending, value)
    IN  ProcessLines([d EXCEPT !.buffer = dec.chars, !.pending = dec.pending,
                               !.pos = @ + Len(value)])

\* reader.read() resolved with a chunk: decode, append to the buffer, take
\* the lines
OnChunk(d, value) ==
    LET dec == DecodeBytes(d.pending, value)
    IN  ProcessLines([d EXCEPT !.buffer = @ \o dec.chars, !.pending = dec.pending,
                               !.pos = @ + Len(value)])

\* reader.read() resolved with done: what is left of the event data and the
\* buffer is parsed and yielded when it is JSON and not '[DONE]'
OnDone(d) ==
    LET finalData == Trim(d.eventData \o d.buffer)
    IN  IF finalData # <<>> /\ finalData # Sentinel /\ IsJson(finalData)
        THEN [d EXCEPT !.events = Append(@, JsonParse(finalData)), !.pc = "flushed"]
        ELSE [d EXCEPT !.pc = "finally", !.cause = "end"]

\* the consumer asks for the next value
OnNext(d) ==
    IF d.pc = "yielded" THEN ProcessLines(d)
    ELSE [d EXCEPT !.pc = "finally", !.cause = "end"]

\* the finally block keeping the lock
FinallyWithoutRelease(d) == [d EXCEPT !.cancelled = TRUE, !.pc = "done"]

\* the finally block: reader.cancel(), then reader.releaseLock()
Finally(d) == [d EXCEPT !.cancelled = TRUE, !.reader = "released", !.pc = "done"]

\* the generator run to its end on a body that arrives as one chunk, by a
\* consumer that takes every value
RECURSIVE RunToEnd(_)
RunToEnd(d) ==
    CASE d.pc = "read" -> RunToEnd(OnDone(d))
      [] d.pc \in {"yielded", "flushed"} -> RunToEnd(OnNext(d))
      [] OTHER -> d

DecodeWhole(bytes) ==
    RunToEnd(OnChunk([NoChat EXCEPT !.pc = "read", !.reader = "locked"], bytes)).events

\* ------------------------------------------- MCPToolHandler.getAvailableTools
\* The registry getAvailableTools reads: server i of the list has id i, a
\* name, is enabled or not (orchestrator: not disabled; store-based handler:
\* active and of status 'connected') and, for the store-based handler, has a
\* service in the store's connections map or not. Every server advertises one
\* tool.

ServerNames == {<<"x">>, <<"y">>, <<"x", "_", "_", "y">>}
AdvertisedTool == <<"t">>
Registries(impl) ==
    UNION {[1..n -> [name : ServerNames, enabled : BOOLEAN,
                     linked : IF impl = "store" THEN BOOLEAN ELSE {TRUE}]] :
           n \in 0..MaxListed}

\* no getAvailableTools call yet; cache is the module-level connections map of
\* the orchestrator: "none" no client, "connected" a client that connected,
\* "failed" a client whose connect() returned false; snapshot is the servers
\* array the call read from the store, queue the ids it loops over
NoListing == [impl |-> "none", servers |-> <<>>, cache |-> [i \in 1..MaxListed |-> "none"],
              calls |-> 0, pc |-> "idle", snapshot |-> <<>>, queue |-> <<>>, at |-> 0,
              tools |-> <<>>,
              queried |-> {}, failed |-> {}, dispatched |-> [descriptor |-> 0, server |-> 0,
                                                               tool |-> <<>>]]

\* servers.filter(...) keeping every server
EnabledServersUnfiltered(listed) == [i \in 1..Len(listed) |-> i]

\* servers.filter(...): the ids of the servers the loop goes through, in order
EnabledServers(listed) ==
    SelectSeq([i \in 1..Len(listed) |-> i], LAMBDA i : listed[i].enabled)

\* the loop from server l.at of the snapshot up to the next await that waits
\* for the network, or to the return. Orchestrator: a server without a cached
\* client gets one and connect() is awaited; a cached client that is not
\* connected throws at listTools(), which the catch logs. Store-based
\* handler: a server without a service in the map is passed over.
RECURSIVE ListFrom(_)
ListFrom(l) ==
    IF l.at > Len(l.queue) THEN [l EXCEPT !.pc = "returned"]
    ELSE LET id == l.queue[l.at]
         IN  IF l.impl = "orchestrator"
             THEN CASE l.cache[id] = "none" ->
                          [l EXCEPT !.pc = "connect", !.queried = @ \union {id}]
                    [] l.cache[id] = "connected" ->
                          [l EXCEPT !.pc = "list", !.queried = @ \union {id}]
                    [] OTHER ->
                          ListFrom([l EXCEPT !.queried = @ \union {id},
                                             !.failed = @ \union {id}, !.at = @ + 1])
             ELSE IF l.servers[id].linked
                  THEN [l EXCEPT !.pc = "list", !.queried = @ \union {id}]
                  ELSE ListFrom([l EXCEPT !.at = @ + 1])

\* the failure of one server leaving the loop: no catch inside it
OnServerFailureRethrown(l) ==
    [l EXCEPT !.failed = @ \union {l.queue[l.at]}, !.pc = "rejected"]

\* connecting to or listing from the server at hand failed: the exception is
\* caught and logged inside the loop (the orchestrator's listTools() returns
\* an empty list instead), the loop goes on with the next server
OnServerFailure(l) ==
    ListFrom([l EXCEPT !.failed = @ \union {l.queue[l.at]}, !.at = @ + 1])

\* getAvailableTools() up to its first await
GetAvailableToolsStart(l) ==
    ListFrom([l EXCEPT !.calls = @ + 1, !.snapshot = l.servers,
                       !.queue = EnabledServers(l.servers), !.at = 1,
                       !.tools = <<>>, !.queried = {}, !.failed = {},
                       !.dispatched = NoListing.dispatched])

\* `await connection.connect()` returned; the client is put into the map
OnListConnect(l, ok) ==
    LET id == l.queue[l.at]
        l1 == [l EXCEPT !.cache[id] = IF ok THEN "connected" ELSE "failed"]
    IN  IF ok THEN [l1 EXCEPT !.pc = "list"] ELSE OnServerFailure(l1)

\* `await connection.listTools()` ended: the tools are pushed under their
\* namespaced names
OnListTools(l, ok) ==
    LET id == l.queue[l.at]
    IN  IF ok
        THEN ListFrom([l EXCEPT !.at = @ + 1,
                                !.tools = Append(@,
                                    [server |-> id,
                                     tool   |-> AdvertisedTool,
                                     name   |-> NamespacedName(l.impl, l.snapshot[id].name,
                                                               AdvertisedTool)])])
        ELSE OnServerFailure(l)

\* servers.find(s => s.name === serverName): the id of the first server of
\* that name, 0 when there is none
FindServer(listed, serverName) ==
    LET hits == {i \in 1..Len(listed) : listed[i].name = serverName}
    IN  IF hits = {} THEN 0 ELSE CHOOSE i \in hits : \A j \in hits : i <= j

\* executeTool on the name of a descriptor: the server and the tool it calls
Dispatch(l, k) ==
    LET split == SplitToolName(l.impl, l.tools[k].name)
    IN  [descriptor |-> k,
         server     |-> IF split.valid THEN FindServer(l.servers, split.serverName) ELSE 0,
         tool       |-> split.toolName]

\* ------------------------------------------- ChatInterface, streamed tool calls
\* delta.tool_calls of the chunks of one streamed completion: each element
\* has the index of the call it belongs to, a function name or none (""), and
\* a fragment of the arguments

ArgumentFragments == {<<>>, <<"a">>, <<"b">>}
ToolCallDeltas ==
    [index : 1..MaxToolIndexes, name : {"", "f"}, arguments : ArgumentFragments]

\* nothing received yet
NoTurn == [received |-> <<>>, toolCalls |-> <<>>, dispatched |-> FALSE]

\* for (const toolCall of delta.tool_calls): an element with a function name
\* is pushed as a call of its own, any other element is dropped
OnToolCallDelta(t, toolCall) ==
    [t EXCEPT !.received = Append(@, toolCall),
              !.toolCalls = IF toolCall.name # "" THEN Append(@, toolCall) ELSE @]

\* ------------------------------------------- the store's registry, by itself
\* connectServer and disconnectServer of useMCPServerStore over several
\* servers, service.connect() and connection.disconnect() seen as awaits and
\* nothing more; at most one call per server is under way. A Map object is a
\* place in heap; the service of server i made by its k-th connectServer is
\* named k; held[i] is the service of the last connectServer(i) that returned
\* true with no disconnectServer(i) called since (0: none).

RegisteredIds == 1..NumRegistered
MapRefs == 1..(NumRegistered + 2)

NoRegistry ==
    [status   |-> [i \in RegisteredIds |-> "disconnected"],
     current  |-> 1,
     heap     |-> [m \in MapRefs |-> [i \in RegisteredIds |-> 0]],
     calls    |-> [i \in RegisteredIds |-> [pc |-> "idle", map |-> 0, service |-> 0]],
     connects |-> [i \in RegisteredIds |-> 0],
     held     |-> [i \in RegisteredIds |-> 0]]

\* set(...connections: new Map(connections)): a new Map object with the
\* entries of Map m becomes the store's connections; the object takes the
\* first place no call and no state refers to
PublishCopy(r, m) ==
    LET used == {r.current} \union {r.calls[i].map : i \in RegisteredIds}
        fresh == CHOOSE n \in MapRefs \ used : \A k \in MapRefs \ used : n <= k
    IN  [r EXCEPT !.heap[fresh] = r.heap[m], !.current = fresh]

\* ---------------------------------------------------------- store actions

Init ==
    /\ servers = [i \in ServerIds |-> "none"]
    /\ activeServers = {}
    /\ connections = 1
    /\ maps = [m \in MapIds |-> EmptyMap]
    /\ conn = [s \in Services |-> NewConnection]
    /\ connectCalls = [s \in Services |-> IdleCall]
    /\ disconnectCalls = <<>>
    /\ disconnectReturned = [i \in ServerIds |-> FALSE]
    /\ client = NewClient
    /\ handler = NoBatch
    /\ naming = NoNaming
    /\ chat = NoChat
    /\ listing = NoListing
    /\ turn = NoTurn
    /\ registry = NoRegistry

\* addServer: a new server, status disconnected (generateId gives the next unused id)
AddServer(id) ==
    /\ servers[id] = "none"
    /\ \A k \in ServerIds : servers[k] = "none" => id <= k
    /\ servers' = [servers EXCEPT ![id] = "disconnected"]
    /\ UNCHANGED <<activeServers, connections, maps, conn, connectCalls, disconnectCalls,
                   disconnectReturned, client, toolVars>>

\* removeServer: filters servers and activeServers, nothing else
RemoveServer(id) ==
    /\ servers[id] \in LifecycleStatus
    /\ servers' = [servers EXCEPT ![id] = "removed"]
    /\ activeServers' = activeServers \ {id}
    /\ disconnectReturned' = [disconnectReturned EXCEPT ![id] = FALSE]
    /\ UNCHANGED <<connections, maps, conn, connectCalls, disconnectCalls, client, toolVars>>

\* connectServer(id, transport) up to `await service.connect()`, which runs
\* StreamableMCPServerService.connect up to `await this.connection.connect()`
ConnectServer(id, transport, constructed) ==
    /\ servers[id] \in LifecycleStatus
    /\ \E s \in Services : conn[s].transport = "none"
    /\ transport = "http" => constructed
    /\ LET s == NextService
       IN  /\ servers' = SetServerStatus(servers, id, "connecting")
           /\ conn' = [conn EXCEPT ![s] =
                  Connect([NewConnection EXCEPT !.transport = transport, !.server = id],
                          constructed)]
           /\ connectCalls' = [connectCalls EXCEPT ![s] =
                  [pc |-> "awaitConnect", id |-> id, map |-> connections, req |-> 0,
                   result |-> FALSE, statusSets |-> <<"connecting">>]]
    /\ disconnectReturned' = [disconnectReturned EXCEPT ![id] = FALSE]
    /\ UNCHANGED <<activeServers, connections, maps, disconnectCalls, client, toolVars>>

\* StreamableMCPServerService.connect whose catch returns true as well
ServiceConnectedSwallowsRejection(s) ==
    /\ connectCalls[s].pc = "awaitConnect"
    /\ conn[s].connectPromise \notin {"none", "pending"}
    /\ connectCalls' = [connectCalls EXCEPT ![s].pc = "returned", ![s].result = TRUE]
    /\ UNCHANGED <<servers, activeServers, connections, maps, conn, disconnectCalls,
                   disconnectReturned, client, toolVars>>

\* StreamableMCPServerService.connect after `await this.connection.connect()`:
\* the SSE/WebSocket service sends initialize, the streaming-HTTP one returns true;
\* a rejection is caught and returns false
ServiceConnected(s) ==
    /\ connectCalls[s].pc = "awaitConnect"
    /\ conn[s].connectPromise \notin {"none", "pending"}
    /\ IF conn[s].connectPromise # "resolved"
       THEN /\ connectCalls' = [connectCalls EXCEPT ![s].pc = "returned", ![s].result = FALSE]
            /\ conn' = conn
       ELSE IF conn[s].transport = "http"
       THEN /\ connectCalls' = [connectCalls EXCEPT ![s].pc = "returned", ![s].result = TRUE]
            /\ conn' = conn
       ELSE /\ connectCalls' = [connectCalls EXCEPT ![s].pc = "awaitInit",
                                                   ![s].req = Issued(conn[s]) + 1]
            /\ conn' = [conn EXCEPT ![s] = Request(conn[s])]
    /\ UNCHANGED <<servers, activeServers, connections, maps, disconnectCalls,
                   disconnectReturned, client, toolVars>>

\* StreamableMCPServerService.connect after `await this.connection.request('initialize')`
ServiceInitialized(s) ==
    /\ connectCalls[s].pc = "awaitInit"
    /\ conn[s].requests[connectCalls[s].req].promise # "pending"
    /\ connectCalls' = [connectCalls EXCEPT
          ![s].pc = "returned",
          ![s].result = (conn[s].requests[connectCalls[s].req].promise = "resolved")]
    /\ UNCHANGED <<servers, activeServers, connections, maps, conn, disconnectCalls,
                   disconnectReturned, client, toolVars>>

\* connectServer after `await service.connect()`
ConnectServerResume(s) ==
    /\ connectCalls[s].pc = "returned"
    /\ LET call == connectCalls[s]
           done == [connectCalls EXCEPT ![s].pc = "done", ![s].map = 0,
                       ![s].statusSets = Append(@, IF call.result THEN "connected" ELSE "error")]
       IN  IF call.result
           THEN LET set == [maps EXCEPT ![call.map][call.id] = s]
                    copy == FreshMap(connections, connectCalls, disconnectCalls)
                IN  /\ servers' = SetServerStatus(servers, call.id, "connected")
                    /\ connections' = copy
                    /\ connectCalls' = done
                    /\ maps' = Collect([set EXCEPT ![copy] = set[call.map]],
                                       copy, done, disconnectCalls)
           ELSE /\ servers' = SetServerStatus(servers, call.id, "error")
                /\ connectCalls' = done
                /\ maps' = Collect(maps, connections, done, disconnectCalls)
                /\ UNCHANGED connections
    /\ disconnectReturned' = [disconnectReturned EXCEPT ![connectCalls[s].id] = FALSE]
    /\ UNCHANGED <<activeServers, conn, disconnectCalls, client, toolVars>>

\* disconnectServer(id) up to `await connection.disconnect()`; without a registry
\* entry it returns at once
DisconnectServer(id) ==
    /\ servers[id] # "none"
    /\ IF GetConnection(id) = 0
       THEN /\ disconnectReturned' = [disconnectReturned EXCEPT
                    ![id] = servers[id] \in {"connecting", "connected", "error"}]
            /\ UNCHANGED <<conn, disconnectCalls>>
       ELSE /\ Len(disconnectCalls) < MaxDisconnects
            /\ conn' = [conn EXCEPT ![GetConnection(id)] = Disconnect(@)]
            /\ disconnectCalls' = Append(disconnectCalls,
                    [id |-> id, map |-> connections, connection |-> GetConnection(id),
                     from |-> servers[id]])
            /\ UNCHANGED disconnectReturned
    /\ UNCHANGED <<servers, activeServers, connections, maps, connectCalls, client, toolVars>>

\* disconnectServer after the await: connections.delete(id), status disconnected
DisconnectServerResume ==
    /\ disconnectCalls # <<>>
    /\ LET call == Head(disconnectCalls)
           rest == Tail(disconnectCalls)
           del == [maps EXCEPT ![call.map][call.id] = 0]
           copy == FreshMap(connections, connectCalls, disconnectCalls)
       IN  /\ servers' = SetServerStatus(servers, call.id, "disconnected")
           /\ connections' = copy
           /\ disconnectCalls' = rest
           /\ maps' = Collect([del EXCEPT ![copy] = del[call.map]], copy, connectCalls, rest)
           /\ disconnectReturned' = [disconnectReturned EXCEPT
                    ![call.id] = /\ call.from \in {"connecting", "connected", "error"}
                                 /\ servers[call.id] \in LifecycleStatus]
    /\ UNCHANGED <<activeServers, conn, connectCalls, client, toolVars>>

\* requests issued on the services beyond their initialize handshake
ServiceRequests ==
    Cardinality({<<s, n>> \in Services \X RequestSeqs :
        conn[s].requests[n].promise # "none"
        /\ ~(n = 1 /\ conn[s].transport \in {"sse", "websocket"})})

\* a caller of getConnection(id) uses the service: listTools / callTool / ... -> request
ServiceRequest(id) ==
    /\ GetConnection(id) # 0
    /\ Issued(conn[GetConnection(id)]) < MaxRequests
    /\ ServiceRequests < MaxServiceRequests
    /\ conn' = [conn EXCEPT ![GetConnection(id)] = Request(@)]
    /\ UNCHANGED <<servers, activeServers, connections, maps, connectCalls, disconnectCalls,
                   disconnectReturned, client, toolVars>>

\* ------------------------------------------------------- network events

storeVars == <<servers, activeServers, connections, maps, connectCalls, disconnectCalls,
               disconnectReturned, client, toolVars>>

\* EventSource / WebSocket open event
ChannelOpen(s) ==
    /\ conn[s].transport \in {"sse", "websocket"}
    /\ conn[s].channel = "connecting"
    /\ conn' = [conn EXCEPT ![s] = OnOpen(@)]
    /\ UNCHANGED storeVars

\* EventSource / WebSocket message event: JSON.parse, handleMessage
ChannelMessage(s, msg) ==
    /\ conn[s].transport \in {"sse", "websocket"}
    /\ conn[s].channel = "open"
    /\ conn' = [conn EXCEPT ![s] = HandleMessage(@, msg)]
    /\ UNCHANGED storeVars

\* EventSource error event; the browser retries (CONNECTING) or gives up (CLOSED)
SSEError(s, closed) ==
    /\ conn[s].transport = "sse"
    /\ conn[s].channel \in {"connecting", "open"}
    /\ conn' = [conn EXCEPT ![s] = OnSSEError(@, closed)]
    /\ UNCHANGED storeVars

\* a WebSocket that could not be opened: the browser fires error and then an
\* unclean close in one task
WSFail(s) ==
    /\ conn[s].transport = "websocket"
    /\ conn[s].channel = "connecting"
    /\ conn' = [conn EXCEPT ![s] = OnClose(OnWSError([@ EXCEPT !.channel = "closed"]), FALSE)]
    /\ UNCHANGED storeVars

\* WebSocket close event of the open socket
WSClose(s, wasClean) ==
    /\ conn[s].transport = "websocket"
    /\ conn[s].channel = "open"
    /\ conn' = [conn EXCEPT ![s] = OnClose([@ EXCEPT !.channel = "closed"], wasClean)]
    /\ UNCHANGED storeVars

\* the events of a socket disconnect() closed and dropped
WSOrphanClose(s, wasClean) ==
    /\ conn[s].orphan \in {"closing", "failing"}
    /\ conn[s].orphan = "failing" => ~wasClean
    /\ conn' = [conn EXCEPT ![s] =
          OnClose(IF conn[s].orphan = "failing" THEN OnWSError([@ EXCEPT !.orphan = "none"])
                  ELSE [@ EXCEPT !.orphan = "none"], wasClean)]
    /\ UNCHANGED storeVars

\* the setTimeout callback of attemptReconnect: this.connect().catch(log); the URL
\* that gave the first socket gives this one
ReconnectTimer(s) ==
    /\ conn[s].timer
    /\ conn' = [conn EXCEPT ![s] = OpenChannel([@ EXCEPT !.timer = FALSE, !.delay = 0], TRUE)]
    /\ UNCHANGED storeVars

InitOutcomes == {"ok", "httpError", "network", "noSession", "badBody"}

\* the initialize fetch of StreamableHTTPConnection.connect completes
InitResponse(s, outcome, msg) ==
    /\ conn[s].transport = "http"
    /\ conn[s].channel = "connecting"
    /\ outcome # "ok" => msg = CHOOSE f \in Frames : TRUE
    /\ conn' = [conn EXCEPT ![s] = OnInitResponse(@, outcome, msg)]
    /\ UNCHANGED storeVars

\* the POST of send() completes
SendResponse(s, n, ok, msg) ==
    /\ n \in conn[s].sending
    /\ (~ok \/ conn[s].transport # "http") => msg = CHOOSE f \in Frames : TRUE
    /\ conn' = [conn EXCEPT ![s] = OnSendResponse(@, n, ok, msg)]
    /\ UNCHANGED storeVars

\* the store's runs bound the unclean closes the network produces in a row
FewUncleanCloses(s) == conn[s].reconnectAttempts < MaxUncleanCloses

Next ==
    \/ \E id \in ServerIds : AddServer(id)
    \/ \E id \in ServerIds : RemoveServer(id)
    \/ \E id \in ServerIds, tr \in Transports, ok \in BOOLEAN : ConnectServer(id, tr, ok)
    \/ \E s \in Services : ServiceConnected(s)
    \/ \E s \in Services : ServiceInitialized(s)
    \/ \E s \in Services : ConnectServerResume(s)
    \/ \E id \in ServerIds : DisconnectServer(id)
    \/ DisconnectServerResume
    \/ \E id \in ServerIds : ServiceRequest(id)
    \/ \E s \in Services : ChannelOpen(s)
    \/ \E s \in Services, msg \in Frames : ChannelMessage(s, msg)
    \/ \E s \in Services, closed \in BOOLEAN : SSEError(s, closed)
    \/ \E s \in Services : FewUncleanCloses(s) /\ WSFail(s)
    \/ \E s \in Services, clean \in BOOLEAN :
          (clean \/ FewUncleanCloses(s)) /\ WSClose(s, clean)
    \/ \E s \in Services, clean \in BOOLEAN :
          (clean \/ FewUncleanCloses(s)) /\ WSOrphanClose(s, clean)
    \/ \E s \in Services : ReconnectTimer(s)
    \/ \E s \in Services, o \in InitOutcomes, msg \in Frames : InitResponse(s, o, msg)
    \/ \E s \in Services, n \in RequestSeqs, ok \in BOOLEAN, msg \in Frames :
          SendResponse(s, n, ok, msg)

Spec == Init /\ [][Next]_vars

\* ------------------------------------------ one service object and its callers
\* The service as MCPClientService holds it (new StreamableMCPServerService(server)):
\* connect() is called once, disconnect(), request-issuing methods and
\* onNotification() at any time; the network is unconstrained.

ConnInit ==
    /\ servers = [i \in ServerIds |-> "none"]
    /\ activeServers = {}
    /\ connections = 1
    /\ maps = [m \in MapIds |-> EmptyMap]
    /\ \E tr \in Transports :
          conn = [s \in Services |->
                    IF s = 1 THEN [NewConnection EXCEPT !.transport = tr] ELSE NewConnection]
    /\ connectCalls = [s \in Services |-> IdleCall]
    /\ disconnectCalls = <<>>
    /\ disconnectReturned = [i \in ServerIds |-> FALSE]
    /\ client = NewClient
    /\ handler = NoBatch
    /\ naming = NoNaming
    /\ chat = NoChat
    /\ listing = NoListing
    /\ turn = NoTurn
    /\ registry = NoRegistry

\* service.connect() up to `await this.connection.connect()`
ApiConnect(constructed) ==
    /\ connectCalls[1].pc = "idle"
    /\ conn[1].transport = "http" => constructed
    /\ conn' = [conn EXCEPT ![1] = Connect(@, constructed)]
    /\ connectCalls' = [connectCalls EXCEPT ![1].pc = "awaitConnect"]
    /\ UNCHANGED <<servers, activeServers, connections, maps, disconnectCalls,
                   disconnectReturned, client, toolVars>>

\* service.disconnect()
ApiDisconnect ==
    /\ conn' = [conn EXCEPT ![1] = Disconnect(@)]
    /\ UNCHANGED storeVars

\* the initialize request service.connect() has yet to issue (SSE and WebSocket)
InitializeToCome ==
    IF conn[1].transport \in {"sse", "websocket"}
       /\ connectCalls[1].pc \in {"idle", "awaitConnect"}
    THEN 1 ELSE 0

\* service.listTools() / callTool() / listResources() / readResource()
ApiRequest ==
    /\ Issued(conn[1]) + InitializeToCome < MaxRequests
    /\ conn' = [conn EXCEPT ![1] = Request(@)]
    /\ UNCHANGED storeVars

\* service.onNotification(method, handler)
ApiOnNotification(method, h) ==
    /\ conn' = [conn EXCEPT ![1] = OnNotification(@, method, h)]
    /\ UNCHANGED storeVars

ConnNext ==
    \/ \E ok \in BOOLEAN : ApiConnect(ok)
    \/ ApiDisconnect
    \/ ApiRequest
    \/ \E m \in Methods : ApiOnNotification(m, 1)
    \/ ServiceConnected(1)
    \/ ServiceInitialized(1)
    \/ ChannelOpen(1)
    \/ \E msg \in Frames : ChannelMessage(1, msg)
    \/ \E closed \in BOOLEAN : SSEError(1, closed)
    \/ WSFail(1)
    \/ \E clean \in BOOLEAN : WSClose(1, clean)
    \/ \E clean \in BOOLEAN : WSOrphanClose(1, clean)
    \/ ReconnectTimer(1)
    \/ \E o \in InitOutcomes, msg \in Frames : InitResponse(1, o, msg)
    \/ \E n \in RequestSeqs, ok \in BOOLEAN, msg \in Frames : SendResponse(1, n, ok, msg)

ConnSpec == ConnInit /\ [][ConnNext]_vars

\* ------------------------------------------------ notifications, closely
\* The connection of ConnSpec with handlers registered for two methods, any
\* of several handler functions each, and notification frames that carry
\* params, while the channel opens and answers requests.

NotifyNext ==
    \/ \E ok \in BOOLEAN : ApiConnect(ok)
    \/ ApiDisconnect
    \/ ApiRequest
    \/ \E m \in NotifyMethods, h \in 1..MaxHandlers : ApiOnNotification(m, h)
    \/ ChannelOpen(1)
    \/ \E msg \in NotifyFrames : ChannelMessage(1, msg)
    \/ \E msg \in NotifyFrames : InitResponse(1, "ok", msg)
    \/ \E n \in RequestSeqs, msg \in NotifyFrames : SendResponse(1, n, TRUE, msg)

NotifySpec == ConnInit /\ [][NotifyNext]_vars

\* ------------------------------------------- a socket with a configuration
\* new WebSocketConnection(server, config) with any ceiling and base delay;
\* connect() is called once, disconnect() at any time.

SocketInit ==
    /\ servers = [i \in ServerIds |-> "none"]
    /\ activeServers = {}
    /\ connections = 1
    /\ maps = [m \in MapIds |-> EmptyMap]
    /\ \E ceiling \in 0..MaxConfiguredAttempts, base \in 0..MaxConfiguredDelay :
          conn = [s \in Services |->
                    IF s = 1
                    THEN [NewConnection EXCEPT
                            !.transport = "websocket",
                            !.config = [reconnectAttempts |-> ceiling, reconnectDelay |-> base]]
                    ELSE NewConnection]
    /\ connectCalls = [s \in Services |-> IdleCall]
    /\ disconnectCalls = <<>>
    /\ disconnectReturned = [i \in ServerIds |-> FALSE]
    /\ client = NewClient
    /\ handler = NoBatch
    /\ naming = NoNaming
    /\ chat = NoChat
    /\ listing = NoListing
    /\ turn = NoTurn
    /\ registry = NoRegistry

\* connection.connect()
SocketConnect(constructed) ==
    /\ conn[1].connectPromise = "none"
    /\ conn' = [conn EXCEPT ![1] = Connect(@, constructed)]
    /\ UNCHANGED storeVars

SocketNext ==
    \/ \E ok \in BOOLEAN : SocketConnect(ok)
    \/ ApiDisconnect
    \/ ChannelOpen(1)
    \/ WSFail(1)
    \/ \E clean \in BOOLEAN : WSClose(1, clean)
    \/ \E clean \in BOOLEAN : WSOrphanClose(1, clean)
    \/ ReconnectTimer(1)

SocketSpec == SocketInit /\ [][SocketNext]_vars

\* A WebSocketConnection the program connects and disconnects at will; the field
\* disconnected records that disconnect() has returned and the program has not
\* called connect() since.

\* connection.connect() called by the program
ExplicitConnect(constructed) ==
    /\ conn[1].connectPromise = "none" \/ conn[1].disconnected
    /\ conn' = [conn EXCEPT ![1] = [Connect(@, constructed) EXCEPT !.disconnected = FALSE]]
    /\ UNCHANGED storeVars

\* connection.disconnect() called by the program
ExplicitDisconnect ==
    /\ conn' = [conn EXCEPT ![1] = [Disconnect(@) EXCEPT !.disconnected = TRUE]]
    /\ UNCHANGED storeVars

LifetimeNext ==
    \/ \E ok \in BOOLEAN : ExplicitConnect(ok)
    \/ ExplicitDisconnect
    \/ ChannelOpen(1)
    \/ WSFail(1)
    \/ \E clean \in BOOLEAN : WSClose(1, clean)
    \/ \E clean \in BOOLEAN : WSOrphanClose(1, clean)
    \/ ReconnectTimer(1)

LifetimeSpec == SocketInit /\ [][LifetimeNext]_vars

\* ------------------------------- MCPClientService (mcp-tool-handler.ts) actions

allButClient == <<servers, activeServers, connections, maps, conn, connectCalls,
                  disconnectCalls, disconnectReturned, toolVars>>

\* connect() up to `await this.client.connect(this.transport)`
SdkConnect ==
    /\ client.connectPc = "idle"
    /\ client.connects < MaxSdkConnects
    /\ client' = [client EXCEPT !.connectPc = "awaitConnect", !.connects = @ + 1,
                                !.callbacks = <<"connecting">>, !.result = "none",
                                !.failure = "none"]
    /\ UNCHANGED allButClient

SdkOutcomes == {"ok", "http500", "network"}

\* connect() after the await: resolved -> isConnected, 'connected', true;
\* rejected -> catch: 'error', false
SdkConnectSettled(outcome) ==
    /\ client.connectPc = "awaitConnect"
    /\ client' =
          IF outcome = "ok"
          THEN [client EXCEPT !.connectPc = "idle", !.isConnected = TRUE,
                              !.callbacks = Append(@, "connected"), !.result = "true"]
          ELSE [client EXCEPT !.connectPc = "idle", !.failure = outcome,
                              !.callbacks = Append(@, "error"), !.result = "false"]
    /\ UNCHANGED allButClient

\* disconnect() up to `await this.client.close()`
SdkDisconnect ==
    /\ client.closePc = "idle"
    /\ client' = [client EXCEPT !.closePc = "awaitClose"]
    /\ UNCHANGED allButClient

\* disconnect() after the await: isConnected = false, or the catch that only logs
SdkCloseSettled(closed) ==
    /\ client.closePc = "awaitClose"
    /\ client' = [client EXCEPT !.closePc = "idle",
                                !.isConnected = IF closed THEN FALSE ELSE @]
    /\ UNCHANGED allButClient

\* ------------------------------------------------ one connect attempt, fairly
\* The store with one server and a single connectServer() call on it, from
\* addServer to the end of the attempt and a disconnect or removal, and the
\* SDK-backed client, under fair scheduling of continuations and fair delivery of
\* network events.

NoServiceYet == \A s \in Services : conn[s].transport = "none"

\* the response frame of request n, as the peer would send it
ResponseFrame(s, n, isError) ==
    [id |-> conn[s].requests[n].id, method |-> "", params |-> 0, isError |-> isError]

\* the peer answers request n over the open channel
ResponseDelivered(s, n) ==
    /\ conn[s].requests[n].promise = "pending"
    /\ \E e \in BOOLEAN : ChannelMessage(s, ResponseFrame(s, n, e))

LiveNext ==
    \/ AddServer(1)
    \/ RemoveServer(1)
    \/ \E tr \in Transports, ok \in BOOLEAN : NoServiceYet /\ ConnectServer(1, tr, ok)
    \/ \E s \in Services : ServiceConnected(s)
    \/ \E s \in Services : ServiceInitialized(s)
    \/ \E s \in Services : ConnectServerResume(s)
    \/ DisconnectServer(1)
    \/ DisconnectServerResume
    \/ \E s \in Services : ChannelOpen(s)
    \/ \E s \in Services, msg \in Frames : ChannelMessage(s, msg)
    \/ \E s \in Services, closed \in BOOLEAN : SSEError(s, closed)
    \/ \E s \in Services : FewUncleanCloses(s) /\ WSFail(s)
    \/ \E s \in Services, clean \in BOOLEAN :
          (clean \/ FewUncleanCloses(s)) /\ WSClose(s, clean)
    \/ \E s \in Services, clean \in BOOLEAN :
          (clean \/ FewUncleanCloses(s)) /\ WSOrphanClose(s, clean)
    \/ \E s \in Services : ReconnectTimer(s)
    \/ \E s \in Services, o \in InitOutcomes, msg \in Frames : InitResponse(s, o, msg)
    \/ \E s \in Services, n \in RequestSeqs, ok \in BOOLEAN, msg \in Frames :
          SendResponse(s, n, ok, msg)
    \/ SdkConnect
    \/ \E o \in SdkOutcomes : SdkConnectSettled(o)
    \/ SdkDisconnect
    \/ \E closed \in BOOLEAN : SdkCloseSettled(closed)

\* continuations run; a channel being opened opens or fails; a fetch completes; a
\* timer fires; a pending request is answered while its channel is open
LiveFairness ==
    /\ \A s \in Services :
          /\ WF_vars(ServiceConnected(s))
          /\ WF_vars(ServiceInitialized(s))
          /\ WF_vars(ConnectServerResume(s))
          /\ WF_vars(ChannelOpen(s) \/ SSEError(s, TRUE) \/ (FewUncleanCloses(s) /\ WSFail(s)))
          /\ WF_vars(\E o \in InitOutcomes, msg \in Frames : InitResponse(s, o, msg))
          /\ WF_vars(ReconnectTimer(s))
          /\ \A n \in RequestSeqs :
                /\ WF_vars(\E ok \in BOOLEAN, msg \in Frames : SendResponse(s, n, ok, msg))
                /\ WF_vars(ResponseDelivered(s, n))
    /\ WF_vars(DisconnectServerResume)
    /\ WF_vars(\E o \in SdkOutcomes : SdkConnectSettled(o))
    /\ WF_vars(\E closed \in BOOLEAN : SdkCloseSettled(closed))

LiveSpec == Init /\ [][LiveNext]_vars /\ LiveFairness

\* ------------------------------------- a server on the socket transport, fairly
\* One server of the store connected over a WebSocket (the store passes the
\* transport on to createStreamableConnection); sockets close and fail to open
\* as often as the network makes them.

RetryNext ==
    \/ AddServer(1)
    \/ \E ok \in BOOLEAN : NoServiceYet /\ ConnectServer(1, "websocket", ok)
    \/ \E s \in Services : ServiceConnected(s)
    \/ \E s \in Services : ServiceInitialized(s)
    \/ \E s \in Services : ConnectServerResume(s)
    \/ DisconnectServer(1)
    \/ DisconnectServerResume
    \/ \E s \in Services : ChannelOpen(s)
    \/ \E s \in Services, msg \in Frames : ChannelMessage(s, msg)
    \/ \E s \in Services : WSFail(s)
    \/ \E s \in Services, clean \in BOOLEAN : WSClose(s, clean)
    \/ \E s \in Services, clean \in BOOLEAN : WSOrphanClose(s, clean)
    \/ \E s \in Services : ReconnectTimer(s)

\* continuations run; a socket being opened opens or fails; a timer fires; a
\* pending request is answered while its socket is open
RetryFairness ==
    /\ \A s \in Services :
          /\ WF_vars(ServiceConnected(s))
          /\ WF_vars(ServiceInitialized(s))
          /\ WF_vars(ConnectServerResume(s))
          /\ WF_vars(ChannelOpen(s) \/ WSFail(s))
          /\ WF_vars(ReconnectTimer(s))
          /\ \A n \in RequestSeqs : WF_vars(ResponseDelivered(s, n))
    /\ WF_vars(DisconnectServerResume)

RetrySpec == Init /\ [][RetryNext]_vars /\ RetryFairness

\* ------------------------------------------------- tool calls, in batches

notHandler == <<servers, activeServers, connections, maps, conn, connectCalls,
                disconnectCalls, disconnectReturned, client, naming, chat, listing, turn, registry>>

\* executeMultipleTools(toolCalls): every executeTool call is started
ExecuteMultipleTools(impl, toolCalls) ==
    /\ handler.batches < MaxBatches
    /\ handler.impl \in {"none", impl}
    /\ handler.calls = <<>> /\ ~handler.resolved
    /\ LET h0 == [impl     |-> impl,
                  calls    |-> toolCalls,
                  pc       |-> [i \in 1..Len(toolCalls) |-> "start"],
                  settled  |-> [i \in 1..Len(toolCalls) |-> Pending],
                  order    |-> <<>>,
                  failed   |-> {},
                  cache    |-> handler.cache,
                  batches  |-> handler.batches + 1,
                  resolved |-> FALSE,
                  results  |-> <<>>]
           h1 == StartCalls(h0, 1)
       IN  handler' = IF Len(toolCalls) = 0
                      THEN [h1 EXCEPT !.resolved = TRUE, !.results = AllSettledResults(h1)]
                      ELSE h1
    /\ UNCHANGED notHandler

\* orchestrator: connection.connect() of a fresh MCPClientService returns; the
\* object is cached whatever it returned, then callTool is entered
ToolConnectSettled(i, ok) ==
    /\ i \in 1..Len(handler.calls)
    /\ handler.pc[i] = "connect"
    /\ LET toolCall == handler.calls[i]
           server == SplitToolName(handler.impl, toolCall.name).serverName
           h1 == [handler EXCEPT !.cache[server] = IF ok THEN "connected" ELSE "failed"]
           h2 == [h1 EXCEPT !.failed = IF ok THEN @ ELSE @ \union {i}]
       IN  handler' = IF ok THEN SettleCall(h2, i, "call", NoEntry)
                      ELSE SettleCall(h2, i, "done",
                                      ErrorEntry(toolCall, "Error: Not connected to MCP server",
                                                 "Not connected to MCP server"))
    /\ UNCHANGED notHandler

\* the tools/call request of call i ends and executeTool returns
ToolCallSettled(i, outcome) ==
    /\ i \in 1..Len(handler.calls)
    /\ handler.pc[i] = "call"
    /\ LET h1 == [handler EXCEPT !.failed = IF outcome = "result" THEN @ ELSE @ \union {i}]
       IN  handler' = SettleCall(h1, i, "done",
                                 ExecuteToolReturn(handler, handler.calls[i], outcome))
    /\ UNCHANGED notHandler

\* the caller has the list executeMultipleTools() resolved to; of the batch the
\* cached connections remain
ToolResultsReturned ==
    /\ handler.resolved
    /\ handler' = [NoBatch EXCEPT !.impl = handler.impl, !.cache = handler.cache,
                                  !.batches = handler.batches]
    /\ UNCHANGED notHandler

ToolNext ==
    \/ \E impl \in Impls, toolCalls \in Batches : ExecuteMultipleTools(impl, toolCalls)
    \/ \E i \in 1..MaxCalls, ok \in BOOLEAN : ToolConnectSettled(i, ok)
    \/ \E i \in 1..MaxCalls, outcome \in CallOutcomes : ToolCallSettled(i, outcome)
    \/ ToolResultsReturned

ToolSpec == Init /\ [][ToolNext]_vars

\* ------------------------------------------------- tool names, there and back

notNaming == <<servers, activeServers, connections, maps, conn, connectCalls,
               disconnectCalls, disconnectReturned, client, handler, chat, listing, turn, registry>>

\* getAvailableTools offers the tool toolName of the server serverName
OfferTool(impl, serverName, toolName) ==
    /\ naming.stage = "none"
    /\ naming' = [NoNaming EXCEPT !.impl = impl, !.server = serverName, !.tool = toolName,
                                  !.stage = "offered",
                                  !.name = NamespacedName(impl, serverName, toolName)]
    /\ UNCHANGED notNaming

\* executeTool is called with the name offered and takes it apart
DispatchTool ==
    /\ naming.stage = "offered"
    /\ LET split == SplitToolName(naming.impl, naming.name)
       IN  naming' = [naming EXCEPT !.stage = IF split.valid THEN "split" ELSE "refused",
                                    !.serverName = split.serverName,
                                    !.toolName = split.toolName]
    /\ UNCHANGED notNaming

NameNext ==
    \/ \E impl \in Impls, serverName \in Strings(MaxServerNameLen),
          toolName \in Strings(MaxToolNameLen) : OfferTool(impl, serverName, toolName)
    \/ DispatchTool

NameSpec == Init /\ [][NameNext]_vars

\* ------------------------------------------------- a streamed chat response
\* One chatStream() call on a body drawn from the pieces above; the body
\* arrives in chunks cut at any byte, the consumer takes the values or leaves.

notChat == <<servers, activeServers, connections, maps, conn, connectCalls,
             disconnectCalls, disconnectReturned, client, handler, naming, listing, turn, registry>>

StreamInit ==
    /\ servers = [i \in ServerIds |-> "none"]
    /\ activeServers = {}
    /\ connections = 1
    /\ maps = [m \in MapIds |-> EmptyMap]
    /\ conn = [s \in Services |-> NewConnection]
    /\ connectCalls = [s \in Services |-> IdleCall]
    /\ disconnectCalls = <<>>
    /\ disconnectReturned = [i \in ServerIds |-> FALSE]
    /\ client = NewClient
    /\ handler = NoBatch
    /\ naming = NoNaming
    /\ \E kinds \in BlockSeqs, residual \in ResidualKinds :
          chat = [NoChat EXCEPT !.kinds = kinds, !.residual = residual]
    /\ listing = NoListing
    /\ turn = NoTurn
    /\ registry = NoRegistry

\* chatStream() up to the first reader.read(): a response that is not ok (or
\* has no body) throws before a reader exists
ChatStreamStart(ok) ==
    /\ chat.pc = "idle"
    /\ chat' = IF ok THEN [chat EXCEPT !.pc = "read", !.reader = "locked"]
               ELSE [chat EXCEPT !.pc = "done", !.cause = "httpError"]
    /\ UNCHANGED notChat

\* reader.read() resolves with the next n bytes of the body
ReadChunk(n) ==
    /\ chat.pc = "read"
    /\ chat.pos + n <= Len(StreamOf(chat.kinds, chat.residual))
    /\ chat' = OnChunk(chat, SubSeq(StreamOf(chat.kinds, chat.residual),
                                    chat.pos + 1, chat.pos + n))
    /\ UNCHANGED notChat

\* reader.read() resolves with done: the body is exhausted
ReadDone ==
    /\ chat.pc = "read"
    /\ chat.pos = Len(StreamOf(chat.kinds, chat.residual))
    /\ chat' = OnDone(chat)
    /\ UNCHANGED notChat

\* reader.read() rejects (the connection breaks): the exception leaves the
\* generator through the finally block
ReadError ==
    /\ chat.pc = "read"
    /\ chat' = [chat EXCEPT !.pc = "finally", !.cause = "readError"]
    /\ UNCHANGED notChat

\* the consumer calls next() on the suspended generator
ConsumerNext ==
    /\ chat.pc \in {"yielded", "flushed"}
    /\ chat' = OnNext(chat)
    /\ UNCHANGED notChat

\* the consumer leaves its loop: return() on the suspended generator
ConsumerReturn ==
    /\ chat.pc \in {"yielded", "flushed"}
    /\ chat' = [chat EXCEPT !.pc = "finally", !.cause = "abandoned"]
    /\ UNCHANGED notChat

\* the finally block runs; reader.cancel() resolved or rejected, the lock is
\* released either way
ReaderCancelSettled ==
    /\ chat.pc = "finally"
    /\ chat' = Finally(chat)
    /\ UNCHANGED notChat

StreamNext ==
    \/ \E ok \in BOOLEAN : ChatStreamStart(ok)
    \/ \E n \in 1..Len(StreamOf(chat.kinds, chat.residual)) : ReadChunk(n)
    \/ ReadDone
    \/ ReadError
    \/ ConsumerNext
    \/ ConsumerReturn
    \/ ReaderCancelSettled

StreamSpec == StreamInit /\ [][StreamNext]_vars

\* ------------------------------------------------- the tools on offer
\* getAvailableTools of either handler over a registry of a few servers, the
\* registry changing while a call is under way, and executeTool on a
\* descriptor the call returned.

notListing == <<servers, activeServers, connections, maps, conn, connectCalls,
                disconnectCalls, disconnectReturned, client, handler, naming, chat, turn, registry>>

ListInit ==
    /\ servers = [i \in ServerIds |-> "none"]
    /\ activeServers = {}
    /\ connections = 1
    /\ maps = [m \in MapIds |-> EmptyMap]
    /\ conn = [s \in Services |-> NewConnection]
    /\ connectCalls = [s \in Services |-> IdleCall]
    /\ disconnectCalls = <<>>
    /\ disconnectReturned = [i \in ServerIds |-> FALSE]
    /\ client = NewClient
    /\ handler = NoBatch
    /\ naming = NoNaming
    /\ chat = NoChat
    /\ turn = NoTurn
    /\ registry = NoRegistry
    /\ \E impl \in Impls : \E listed \in Registries(impl) :
          listing = [NoListing EXCEPT !.impl = impl, !.servers = listed]

\* mcpToolHandler.getAvailableTools()
GetAvailableTools ==
    /\ listing.pc \in {"idle", "returned"}
    /\ listing.calls < MaxListCalls
    /\ listing' = GetAvailableToolsStart(listing)
    /\ UNCHANGED notListing

\* the connect() of the client created for the server at hand returns
ListConnectSettled(ok) ==
    /\ listing.pc = "connect"
    /\ listing' = OnListConnect(listing, ok)
    /\ UNCHANGED notListing

\* the tools/list request to the server at hand is answered or fails
ListToolsSettled(ok) ==
    /\ listing.pc = "list"
    /\ listing' = OnListTools(listing, ok)
    /\ UNCHANGED notListing

\* the user disables (or deactivates) server i while a call is under way
DisableServer(i) ==
    /\ listing.pc \in {"connect", "list"}
    /\ i \in 1..Len(listing.servers)
    /\ listing.servers[i].enabled
    /\ listing' = [listing EXCEPT !.servers[i].enabled = FALSE]
    /\ UNCHANGED notListing

\* executeTool on the name of descriptor k of the list returned
ExecuteDescriptor(k) ==
    /\ listing.pc = "returned"
    /\ listing.dispatched.descriptor = 0
    /\ k \in 1..Len(listing.tools)
    /\ listing' = [listing EXCEPT !.dispatched = Dispatch(listing, k)]
    /\ UNCHANGED notListing

ListNext ==
    \/ GetAvailableTools
    \/ \E ok \in BOOLEAN : ListConnectSettled(ok)
    \/ \E ok \in BOOLEAN : ListToolsSettled(ok)
    \/ \E i \in 1..MaxListed : DisableServer(i)
    \/ \E k \in 1..MaxListed : ExecuteDescriptor(k)

ListSpec == ListInit /\ [][ListNext]_vars

\* ------------------------------------------------- tool calls, streamed
\* The streaming branch of handleSendMessage over the tool-call deltas of one
\* completion.

notTurn == <<servers, activeServers, connections, maps, conn, connectCalls,
             disconnectCalls, disconnectReturned, client, handler, naming, chat, listing, registry>>

\* a chunk of the stream brings a tool-call delta
ToolCallDelta(toolCall) ==
    /\ ~turn.dispatched
    /\ Len(turn.received) < MaxDeltas
    /\ turn' = OnToolCallDelta(turn, toolCall)
    /\ UNCHANGED notTurn

\* the stream ends: handleToolCalls(toolCalls) when there are any
StreamEnd ==
    /\ ~turn.dispatched
    /\ turn' = [turn EXCEPT !.dispatched = TRUE]
    /\ UNCHANGED notTurn

DeltaNext ==
    \/ \E toolCall \in ToolCallDeltas : ToolCallDelta(toolCall)
    \/ StreamEnd

DeltaSpec == Init /\ [][DeltaNext]_vars

\* ------------------------------------------------- connects of several servers

notRegistry == <<servers, activeServers, connections, maps, conn, connectCalls,
                 disconnectCalls, disconnectReturned, client, handler, naming, chat,
                 listing, turn>>

\* connectServer(i) up to `await service.connect()`
RegConnect(i) ==
    /\ registry.calls[i].pc = "idle"
    /\ registry.connects[i] < MaxRegistryConnects
    /\ registry' = [registry EXCEPT
          !.status[i] = "connecting",
          !.connects[i] = @ + 1,
          !.calls[i] = [pc |-> "connecting", map |-> registry.current,
                        service |-> registry.connects[i] + 1]]
    /\ UNCHANGED notRegistry

\* connectServer(i) after the await: connections.set(id, service) on the Map
\* read at the start of the call, a copy of it published; or status 'error'
RegConnectResume(i, connected) ==
    /\ registry.calls[i].pc = "connecting"
    /\ LET call == registry.calls[i]
           idle == [registry EXCEPT !.calls[i] = NoRegistry.calls[i]]
       IN  registry' =
             IF connected
             THEN PublishCopy([idle EXCEPT !.heap[call.map][i] = call.service,
                                           !.status[i] = "connected",
                                           !.held[i] = call.service],
                              call.map)
             ELSE [idle EXCEPT !.status[i] = "error"]
    /\ UNCHANGED notRegistry

\* disconnectServer(i) up to `await connection.disconnect()`; without an
\* entry in the map it returns at once
RegDisconnect(i) ==
    /\ registry.calls[i].pc = "idle"
    /\ registry.connects[i] > 0
    /\ registry' =
          IF registry.heap[registry.current][i] = 0
          THEN [registry EXCEPT !.held[i] = 0]
          ELSE [registry EXCEPT !.held[i] = 0,
                                !.calls[i] = [pc |-> "disconnecting",
                                              map |-> registry.current, service |-> 0]]
    /\ UNCHANGED notRegistry

\* disconnectServer(i) after the await: connections.delete(id) on the Map
\* read at the start of the call, a copy of it published
RegDisconnectResume(i) ==
    /\ registry.calls[i].pc = "disconnecting"
    /\ LET call == registry.calls[i]
           idle == [registry EXCEPT !.calls[i] = NoRegistry.calls[i]]
       IN  registry' = PublishCopy([idle EXCEPT !.heap[call.map][i] = 0,
                                                !.status[i] = "disconnected"],
                                   call.map)
    /\ UNCHANGED notRegistry

RegistryNext ==
    \/ \E i \in RegisteredIds : RegConnect(i)
    \/ \E i \in RegisteredIds, connected \in BOOLEAN : RegConnectResume(i, connected)
    \/ \E i \in RegisteredIds : RegDisconnect(i)
    \/ \E i \in RegisteredIds : RegDisconnectResume(i)

RegistrySpec == Init /\ [][RegistryNext]_vars

\* ------------------------------------------------------------------ claims

\* the argument fragments of a sequence of deltas, one after the other
RECURSIVE ConcatArguments(_)
ConcatArguments(deltas) ==
    IF deltas = <<>> THEN <<>> ELSE Head(deltas).arguments \o ConcatArguments(Tail(deltas))

\* C1: every response frame settles exactly the promise of the request that was
\* issued with the frame's id, and a request's handler runs at most once: responses
\* arriving in any order, duplicated or carrying an id never issued settle no other
\* request's promise.
C1_ResponseSettlesOwnRequest ==
    \A s \in Services : \A n \in RequestSeqs :
        LET r == conn[s].requests[n]
        IN  /\ r.handled <= 1
            /\ r.handled = 1 => r.frame = r.id
            /\ r.promise \in {"resolved", "rejectedRemote"} => r.handled = 1 /\ r.frame = r.id
            /\ r.promise \in {"none", "pending"} => r.handled = 0

\* the response to the second request arrived first and settled it; the first
\* request is still pending
C1_OutOfOrderSettled ==
    \E s \in Services :
        /\ conn[s].requests[2].promise \in {"resolved", "rejectedRemote"}
        /\ conn[s].requests[2].handled = 1
        /\ conn[s].requests[1].promise = "pending"

\* C2: a disconnect() rejects every request pending at that moment with a
\* connection-closed error and leaves the table of response handlers empty.
C2_DisconnectRejectsPending ==
    [][ApiDisconnect =>
        /\ \A n \in RequestSeqs :
              conn[1].requests[n].promise = "pending"
                  => conn'[1].requests[n].promise = "rejectedClosed"
        /\ \A i \in FrameIds : conn'[1].messageHandlers[i] = 0]_vars

\* the initialize handshake of service s returned a JSON-RPC result
HandshakeSucceeded(s) ==
    IF conn[s].transport = "http"
    THEN conn[s].handshake = "result"
    ELSE /\ connectCalls[s].req # 0
         /\ conn[s].requests[connectCalls[s].req].promise = "resolved"

\* the handshake call of service s was answered with a non-ok HTTP status
HandshakeHttpError(s) ==
    IF conn[s].transport = "http"
    THEN conn[s].connectPromise = "rejectedHttp"
    ELSE /\ connectCalls[s].req # 0
         /\ conn[s].requests[connectCalls[s].req].promise = "rejectedHttp"

\* the channel of service s is open
TransportOpen(s) == conn[s].channel = "open"

\* C3: a server's status is connected if and only if the registry holds a service
\* for it whose transport is open and whose initialize handshake succeeded; also
\* after the transport closed or failed on its own.
C3_ConnectedIffRegisteredOpen ==
    \A id \in ServerIds :
        servers[id] \in LifecycleStatus =>
            (servers[id] = "connected"
                <=> /\ GetConnection(id) # 0
                    /\ TransportOpen(GetConnection(id))
                    /\ HandshakeSucceeded(GetConnection(id)))

\* C4: connectServer(id) and disconnectServer(id) serialize: when a disconnect
\* resumes after its await, a service that a connect registered and opened in the
\* meantime stays in the registry, and no server left with status disconnected
\* keeps a registry entry.
C4_ConnectDisconnectSerialize ==
    [][DisconnectServerResume =>
        /\ \A s \in Services :
              (/\ connectCalls[s].pc = "done"
               /\ connectCalls[s].result
               /\ TransportOpen(s)
               /\ GetConnection(connectCalls[s].id) = s
               /\ s # Head(disconnectCalls).connection)
                  => maps'[connections'][connectCalls[s].id] = s
        /\ \A id \in ServerIds :
              servers'[id] = "disconnected" => maps'[connections'][id] = 0]_vars

\* C5: once a server has been removed, no transport opened for it is open, none of
\* its requests is pending and the registry holds no entry for it; also when a
\* connectServer for it was in flight at the removal.
C5_RemoveLeavesNothing ==
    \A id \in ServerIds :
        servers[id] = "removed" =>
            /\ GetConnection(id) = 0
            /\ \A s \in Services :
                  conn[s].server = id =>
                      /\ ~TransportOpen(s)
                      /\ \A n \in RequestSeqs : conn[s].requests[n].promise # "pending"

\* C6: connectServer reports success only if the transport opened and initialize
\* returned a JSON-RPC result; on any failure it sets status error, registers no
\* service and does not leave the transport of the attempt open.
C6_SuccessOnlyAfterHandshake ==
    [][\A s \in Services :
          ConnectServerResume(s) =>
              IF connectCalls[s].result
              THEN /\ conn[s].connectPromise = "resolved"
                   /\ HandshakeSucceeded(s)
              ELSE /\ servers[connectCalls[s].id] \in LifecycleStatus
                          => servers'[connectCalls[s].id] = "error"
                   /\ maps'[connections'][connectCalls[s].id] # s
                   /\ ~TransportOpen(s)]_vars

\* C7: a connect whose handshake call is answered with HTTP 500 sets the status
\* connecting and then error and nothing else, the status callback runs exactly
\* twice (connecting, error), and connect() resolves to false.
C7_Http500EndsInError ==
    /\ \A s \in Services :
          LET call == connectCalls[s]
          IN  /\ call.pc \in {"awaitConnect", "awaitInit", "returned"}
                    => /\ call.statusSets = <<"connecting">>
                       /\ servers[call.id] \in {"connecting", "removed"}
              /\ (call.pc \in {"returned", "done"} /\ HandshakeHttpError(s))
                    => ~call.result
              /\ (call.pc = "done" /\ HandshakeHttpError(s))
                    => /\ call.statusSets = <<"connecting", "error">>
                       /\ servers[call.id] \in {"error", "removed"}
    /\ (client.connectPc = "idle" /\ client.failure = "http500")
          => /\ client.callbacks = <<"connecting", "error">>
             /\ client.result = "false"
             /\ ~client.isConnected \/ client.connects > 1

\* both connects were answered with HTTP 500 and have returned
C7_Http500Returned ==
    /\ \E s \in Services :
          /\ connectCalls[s].pc = "done"
          /\ HandshakeHttpError(s)
          /\ servers[connectCalls[s].id] = "error"
    /\ client.connectPc = "idle"
    /\ client.failure = "http500"

\* the edges of the lifecycle machine
StatusEdge(from, to) ==
    \/ to = "disconnected"
    \/ <<from, to>> \in {<<"disconnected", "connecting">>, <<"connecting", "connected">>,
                          <<"connecting", "error">>, <<"connected", "error">>,
                          <<"error", "connecting">>}

\* C8: every change of a server's status follows an edge of the lifecycle machine:
\* never connected -> connecting, never disconnected -> connected or error.
C8_StatusFollowsEdges ==
    [][\A id \in ServerIds :
          (/\ servers[id] \in LifecycleStatus
           /\ servers'[id] \in LifecycleStatus
           /\ servers'[id] # servers[id])
              => StatusEdge(servers[id], servers'[id])]_vars

\* C9: a disconnectServer issued while the server is connecting, connected or in
\* error returns with the server's status disconnected and its transport closed.
C9_DisconnectLeavesDisconnected ==
    \A id \in ServerIds :
        disconnectReturned[id] =>
            /\ servers[id] = "disconnected"
            /\ \A s \in Services :
                  (conn[s].server = id /\ connectCalls[s].pc = "done") => ~TransportOpen(s)

\* C10: every connect attempt terminates: its connect promise settles and the
\* server's status leaves connecting.
C10_ConnectTerminates ==
    /\ \A s \in Services :
          (connectCalls[s].pc = "awaitConnect") ~> (conn[s].connectPromise # "pending")
    /\ \A id \in ServerIds :
          (servers[id] = "connecting") ~> (servers[id] # "connecting")

\* C11: the list executeMultipleTools() resolves to is as long as the list of
\* calls, and its i-th entry carries the id of the i-th call, whatever the order
\* the calls complete in and whether they succeed or fail.
C11_EntriesFollowInputOrder ==
    handler.resolved =>
        /\ Len(handler.results) = Len(handler.calls)
        /\ \A i \in 1..Len(handler.calls) :
              handler.results[i].toolCallId = handler.calls[i].id

\* a batch of two resolved whose second call completed first, the first call
\* failing and the second succeeding
C11_SettledOutOfOrder ==
    /\ handler.resolved
    /\ Len(handler.calls) = 2
    /\ handler.order = <<2, 1>>
    /\ handler.results[1].hasError
    /\ ~handler.results[2].hasError

\* C12: executeMultipleTools() does not reject as a whole: it resolves to one
\* entry per call, where every call that failed (unknown or unreachable server,
\* rejected invocation) has an entry carrying an error and every call that
\* succeeded has an entry carrying its result and no error.
C12_FailedCallsCarryErrors ==
    handler.resolved =>
        /\ Len(handler.results) = Len(handler.calls)
        /\ \A i \in 1..Len(handler.calls) :
              /\ i \in handler.failed => handler.results[i].hasError
              /\ i \notin handler.failed =>
                    ~handler.results[i].hasError /\ handler.results[i].result # "null"

\* C13: executeTool does not throw: whatever goes wrong with a call (unknown
\* server, missing or failed connection, unparsable arguments, a failed write,
\* a JSON-RPC error answering tools/call), its promise is fulfilled with an
\* entry that carries the id of the call and a non-empty error string in its
\* error field; only a call that succeeded has an entry without error field.
C13_EveryFailureIsAnErrorEntry ==
    \A i \in 1..Len(handler.calls) :
        handler.settled[i].status # "pending" =>
            LET entry == handler.settled[i].value
                wrong == i \in handler.failed \/ ~ParsesAsJson(handler.calls[i].arguments)
            IN  /\ handler.settled[i].status = "fulfilled"
                /\ entry.toolCallId = handler.calls[i].id
                /\ wrong => entry.hasError /\ entry.error # ""
                /\ ~wrong => ~entry.hasError

\* C14 as stated: for every server name that does not contain the separator
\* and every tool name, the name offered is server + separator + tool and
\* executeTool's split gives back exactly that server and that tool.
C14_RoundTripWithoutSeparator ==
    (naming.stage # "none" /\ IndexOf(naming.server, Separator(naming.impl)) = 0) =>
        /\ naming.name = naming.server \o Separator(naming.impl) \o naming.tool
        /\ naming.stage # "refused"
        /\ naming.stage = "split" =>
              naming.serverName = naming.server /\ naming.toolName = naming.tool

\* C14, amended: the same for every server name that does not contain the
\* separator and does not end in an underscore (the character the separators
\* are made of), and every tool name, tool names containing the separator
\* included.
C14_RoundTripNoTrailingUnderscore ==
    (/\ naming.stage # "none"
     /\ IndexOf(naming.server, Separator(naming.impl)) = 0
     /\ naming.server = <<>> \/ naming.server[Len(naming.server)] # "_") =>
        /\ naming.name = naming.server \o Separator(naming.impl) \o naming.tool
        /\ naming.stage # "refused"
        /\ naming.stage = "split" =>
              naming.serverName = naming.server /\ naming.toolName = naming.tool

\* a tool name holding the separator has gone through the orchestrator's split
C14_SeparatorInToolName ==
    /\ naming.stage = "split"
    /\ naming.impl = "orchestrator"
    /\ naming.server = <<"x">>
    /\ naming.tool = <<"x", "_", "_">>
    /\ naming.toolName = naming.tool

\* C15: on the socket transport as the program configures it (base delay
\* 1000 ms, ceiling 5), the k-th reconnection attempt in a row is scheduled
\* with a delay of 1000, 2000, 4000, 8000, 16000 ms for k = 1..5, and there is
\* no sixth attempt.
C15_BackoffDelays ==
    /\ conn[1].reconnectAttempts <= 5
    /\ conn[1].timer =>
          /\ conn[1].transport = "websocket"
          /\ conn[1].reconnectAttempts \in 1..5
          /\ conn[1].delay = <<1000, 2000, 4000, 8000, 16000>>[conn[1].reconnectAttempts]

\* the fifth attempt has been made and has failed, and nothing is scheduled
C15_SixthAttemptDeclined ==
    /\ conn[1].transport = "websocket"
    /\ conn[1].reconnectAttempts = 5
    /\ conn[1].channel = "closed"
    /\ ~conn[1].timer

\* C16: for every configured ceiling (0 included) and base delay, the attempts
\* made in a row without a successful open never exceed the ceiling, the k-th
\* of them is scheduled base * 2^(k-1) after the close, and the count is back
\* at 0 once a socket has opened.
C16_ConfiguredCeilingAndDelay ==
    /\ conn[1].reconnectAttempts <= conn[1].config.reconnectAttempts
    /\ conn[1].timer =>
          conn[1].delay = conn[1].config.reconnectDelay * 2 ^ (conn[1].reconnectAttempts - 1)
    /\ conn[1].channel = "open" => conn[1].reconnectAttempts = 0

\* C17: once the reconnection attempts of a server's socket have reached the
\* ceiling without a successful open, no further attempt is scheduled, and the
\* server's status becomes error: it does not stay connected or connecting.
C17_ExhaustedRetriesEndInError ==
    \A s \in Services :
        /\ [](conn[s].reconnectAttempts <= ReconnectCeiling)
        /\ (/\ conn[s].server = 1
            /\ conn[s].reconnectAttempts = ReconnectCeiling
            /\ conn[s].channel = "closed"
            /\ ~conn[s].timer)
              ~> (servers[1] \notin {"connected", "connecting"})

\* C18: a reconnection attempt is scheduled only by the socket transport, and
\* only when a channel that had been open closes uncleanly (or an attempt
\* scheduled that way has failed in its turn): a failed initial open, a clean
\* close and an explicit disconnect() schedule none.
C18_RetryOnlyAfterUncleanCloseOfOpen ==
    [][(conn'[1].timer /\ ~conn[1].timer) =>
          /\ conn[1].transport = "websocket"
          /\ conn[1].orphan = "none"
          /\ conn[1].channel = "open" \/ conn[1].reconnectAttempts > 0]_vars

\* C19: on every transport, a request() made while the connection is not open
\* is rejected at once and hands nothing to the network: no frame is written
\* and no POST is started.
C19_RequestWhileNotOpenRejects ==
    [][(Issued(conn'[1]) = Issued(conn[1]) + 1 /\ conn[1].channel # "open") =>
          /\ conn'[1].requests[Issued(conn'[1])].promise = "rejectedNotOpen"
          /\ conn'[1].wire = conn[1].wire
          /\ conn'[1].sending = conn[1].sending]_vars

\* a request made on a connection whose channel had closed: rejected, not sent
C19_RejectedOnClosedChannel ==
    \E n \in RequestSeqs :
        /\ conn[1].requests[n].promise = "rejectedNotOpen"
        /\ n \notin conn[1].wire
        /\ conn[1].connectPromise = "resolved"
        /\ conn[1].channel \in {"closed", "undefined"}

\* C20: on every transport disconnect() is idempotent: called a second time,
\* or on a connection that was never opened, it leaves the state the first
\* call left, which is not open and holds no channel.
C20_DisconnectIdempotent ==
    LET once == Disconnect(conn[1])
    IN  /\ Disconnect(once) = once
        /\ ~once.isConnected
        /\ once.channel = "undefined"
        /\ (conn[1].channel = "undefined" /\ ~conn[1].isConnected) => once = conn[1]

\* disconnect() has been called on a connection that had opened
C20_DisconnectedAfterOpen ==
    /\ conn[1].connectPromise = "resolved"
    /\ conn[1].channel = "undefined"
    /\ ~conn[1].isConnected
    /\ conn[1].requestId > 1

\* C21: within the lifetime of a connection every outgoing JSON-RPC call, the
\* initialize call the transport writes itself included, carries an id no
\* other call of the connection has used; the ids of request() are 1, 2, 3, ...
\* in the order of the calls.
C21_RequestIdsUnique ==
    LET issued == {n \in RequestSeqs : conn[1].requests[n].promise # "none"}
    IN  /\ \A n \in issued, m \in issued :
              n # m => conn[1].requests[n].id # conn[1].requests[m].id
        /\ \A n \in issued, m \in issued :
              n < m => conn[1].requests[n].id < conn[1].requests[m].id
        /\ \A n \in conn[1].wire :
              conn[1].handshakeId # 0 => conn[1].requests[n].id # conn[1].handshakeId

\* C22: handleMessage on a frame that carries a method and no id invokes the
\* handler registered through onNotification for that method, once, with the
\* params of the frame, and nothing else changes; when no handler is
\* registered for the method the frame changes nothing at all: pending
\* requests and the other handlers stay as they are.
C22_NotificationRouted ==
    \A msg \in NotifyFrames :
        (msg.id = 0 /\ msg.method # "") =>
            LET c == conn[1]
                h == c.notificationHandlers[msg.method]
                after == HandleMessage(c, msg)
            IN  IF h # 0
                THEN after = [c EXCEPT !.notified = IF @ < 2 THEN @ + 1 ELSE @,
                                       !.lastNotification =
                                            [handler |-> h, params |-> msg.params]]
                ELSE after = c

\* a notification has reached the second handler function, registered for one
\* method while another handler is registered for the other method and a
\* request is pending
C22_SecondHandlerNotified ==
    /\ conn[1].notified = 1
    /\ conn[1].lastNotification = [handler |-> 2, params |-> 2]
    /\ conn[1].notificationHandlers["progress"] = 2
    /\ conn[1].notificationHandlers["notify"] = 1
    /\ \E n \in RequestSeqs : conn[1].requests[n].promise = "pending"

\* C23: after disconnect() the notification subscriptions of the connection
\* are empty: a disconnect() that changes the connection leaves no handler
\* registered for any method, so that no frame delivered later, on this
\* channel or on one opened by a later connect(), reaches a handler
\* registered before the disconnect.
C23_DisconnectClearsSubscriptions ==
    [][(conn'[1] = Disconnect(conn[1]) /\ conn'[1] # conn[1])
          => \A m \in NotifyMethods : conn'[1].notificationHandlers[m] = 0]_vars

\* C24: every lifecycle status transition of the SDK-backed client invokes the
\* status-change callback exactly once with the new status: a step that takes
\* the client from not connected to connected, or back (the transition made
\* by disconnect() included), adds exactly one callback invocation, with
\* 'connected' or 'disconnected' respectively.
C24_EveryTransitionCallsBack ==
    [][client'.isConnected # client.isConnected
          => client'.callbacks =
                Append(client.callbacks,
                       IF client'.isConnected THEN "connected" ELSE "disconnected")]_vars

\* C25: a streaming-HTTP connect() succeeds only if the handshake response
\* carries a session token: when the connect promise has resolved, and in
\* every open state, the session id is defined; while the connection stays
\* open the session id does not change; and every request written after the
\* handshake carries exactly that session id in its Mcp-Session-Id header.
C25_SessionTokenHeld ==
    /\ [](conn[1].transport = "http" =>
            /\ conn[1].connectPromise = "resolved" => conn[1].sessionId # 0
            /\ conn[1].isConnected => conn[1].sessionId # 0
            /\ \A n \in conn[1].wire :
                  /\ conn[1].requests[n].session # 0
                  /\ conn[1].requests[n].session = conn[1].sessionId)
    /\ [][(conn[1].transport = "http" /\ conn[1].isConnected /\ conn'[1].isConnected)
             => conn'[1].sessionId = conn[1].sessionId]_vars

\* a request has been written on an open streaming-HTTP connection, with the
\* session id of the handshake
C25_RequestWrittenWithSession ==
    /\ conn[1].transport = "http"
    /\ conn[1].isConnected
    /\ conn[1].connectPromise = "resolved"
    /\ \E n \in conn[1].wire : conn[1].requests[n].session = 1

\* C26: the events chatStream yields do not depend on where the body is cut
\* into chunks: whatever the chunks, the values yielded so far are the first
\* values the generator yields when the whole body arrives as one chunk, and
\* a generator that has run to the end of the body or to '[DONE]' has yielded
\* exactly those values.
C26_ChunkBoundaryIndependent ==
    LET whole == DecodeWhole(StreamOf(chat.kinds, chat.residual))
    IN  /\ Len(chat.events) <= Len(whole)
        /\ chat.events = SubSeq(whole, 1, Len(chat.events))
        /\ (chat.pc = "done" /\ chat.cause \in {"end", "sentinel"}) => chat.events = whole

\* a chunk has ended between the CR and the LF that end the second event of
\* a body: the first value was yielded, the data of the second event is held
\* and the CR waits in the buffer
C26_CutInsideLineEnd ==
    /\ chat.kinds = <<"good", "goodCRLF">>
    /\ chat.pc = "read"
    /\ chat.events = << <<"1">> >>
    /\ chat.eventData = <<"[", "1", "]", "\n">>
    /\ chat.buffer = <<"\r">>

\* C27: as soon as an event whose trimmed data is exactly '[DONE]' has been
\* terminated by a blank line, chatStream ends: once the bytes read reach the
\* end of the first such event the generator reads no further chunk and does
\* not reach the flush, the values yielded are values of the events before
\* that event, in order, and when the generator has left through the return
\* they are exactly those values: nothing after the event, in the same chunk
\* or a later one, is yielded, and what the buffer held is discarded.
C27_DoneEndsTheStream ==
    LET isDone == {i \in 1..Len(chat.kinds) : chat.kinds[i] = "done"}
        first == CHOOSE i \in isDone : \A j \in isDone : i <= j
        before == SubSeq(chat.kinds, 1, first - 1)
        doneEnd == Len(Concat(SubSeq(chat.kinds, 1, first)))
        expected == DecodeWhole(Concat(before))
    IN  (isDone # {} /\ chat.pos >= doneEnd) =>
            /\ chat.pc \in {"yielded", "finally", "done"}
            /\ Len(chat.events) <= Len(expected)
            /\ chat.events = SubSeq(expected, 1, Len(chat.events))
            /\ chat.cause = "sentinel" => chat.events = expected
            /\ chat.cause \in {"none", "sentinel", "abandoned"}

\* one chunk brought an event, the '[DONE]' event and a bare JSON text after
\* it: the generator has ended with the first value only
C27_EndedAtDone ==
    /\ chat.kinds = <<"good", "done">>
    /\ chat.residual = "bare"
    /\ chat.pos = Len(StreamOf(chat.kinds, chat.residual))
    /\ chat.pc = "done" /\ chat.cause = "sentinel"
    /\ chat.events = << <<"1">> >>
    /\ chat.reader = "released"

\* C28: what is left when the body ends goes through the termination logic of
\* an event exactly once: for every body, a generator that has run to the end
\* of the body (or to '[DONE]') has yielded exactly the values it yields for
\* the same body followed by a line break and a blank line.
C28_ResidualTerminatedOnce ==
    (chat.pc = "done" /\ chat.cause \in {"end", "sentinel"}) =>
        chat.events = DecodeWhole(StreamOf(chat.kinds, chat.residual) \o <<"\n", "\n">>)

\* C29: an event whose data is not valid JSON yields nothing and does not end
\* the stream: unless reading fails or the consumer leaves, the generator
\* ends only at the end of the body or at '[DONE]', and a generator that has
\* run to the end of the body or to '[DONE]' has yielded,
\* in order, exactly the values it yields for the body with its malformed
\* events taken out, so the well-formed events before and after a malformed
\* one are all yielded.
C29_MalformedEventSkipped ==
    LET wellFormed == SelectSeq(chat.kinds, LAMBDA k : k # "malformed")
    IN  /\ (chat.pc \in {"finally", "done"}
                /\ chat.cause \notin {"httpError", "readError", "abandoned"}) =>
               \/ chat.cause = "sentinel"
               \/ chat.cause = "end"
                     /\ chat.pos = Len(StreamOf(chat.kinds, chat.residual))
        /\ (chat.pc = "done" /\ chat.cause \in {"end", "sentinel"}) =>
               chat.events = DecodeWhole(StreamOf(wellFormed, chat.residual))

\* a body with a well-formed event, a malformed one and a data line after it
\* has been read to its end: the values of the first and of the last were
\* yielded
C29_YieldedAroundMalformed ==
    /\ chat.kinds = <<"goodCRLF", "malformed">>
    /\ chat.residual = "dataLine"
    /\ chat.pc = "done" /\ chat.cause = "end"
    /\ chat.events = << <<"[", "1", "]">>, <<"1">> >>

\* C30: once chatStream has acquired the reader it cancels and releases it on
\* every exit path: a generator that has ended, at the end of the body, at
\* '[DONE]', through an exception while reading or because the consumer left
\* early, has called reader.cancel() and released the lock; only a call that
\* failed before a reader existed ends without one.
C30_ReaderReleasedOnExit ==
    chat.pc = "done" =>
        IF chat.cause = "httpError"
        THEN chat.reader = "none"
        ELSE /\ chat.cause \in {"end", "sentinel", "readError", "abandoned"}
             /\ chat.cancelled
             /\ chat.reader = "released"

\* the consumer left after the first value of a body that had more to give,
\* and the generator has ended
C30_ReleasedAfterAbandon ==
    /\ chat.kinds = <<"good", "good">>
    /\ chat.pc = "done" /\ chat.cause = "abandoned"
    /\ chat.events = << <<"1">> >>
    /\ chat.reader = "released"
    /\ chat.cancelled

\* C31: getAvailableTools isolates the failures of single servers: the call
\* never rejects, and when it returns, the list holds, in the order of the
\* registry, the tool of every server of the loop whose connect and tools
\* listing did not fail, whatever happened with the other servers.
C31_ServerFailuresIsolated ==
    /\ listing.pc # "rejected"
    /\ listing.pc = "returned" =>
          LET answered == SelectSeq(listing.queue,
                                    LAMBDA id : id \in listing.queried \ listing.failed)
          IN  /\ Len(listing.tools) = Len(answered)
              /\ \A k \in 1..Len(answered) : listing.tools[k].server = answered[k]

\* the first server of the loop failed and the call returned the tool of the
\* second
C31_ToolsAfterAFailure ==
    /\ listing.pc = "returned"
    /\ listing.queue = <<1, 2>>
    /\ listing.failed = {1}
    /\ Len(listing.tools) = 1
    /\ listing.tools[1].server = 2

C33_DeltasAccumulatedPerIndex ==
    turn.dispatched =>
        LET named == {turn.received[k].index :
                        k \in {j \in 1..Len(turn.received) : turn.received[j].name # ""}}
            of(i) == SelectSeq(turn.received, LAMBDA d : d.index = i)
        IN  /\ {turn.toolCalls[k].index : k \in 1..Len(turn.toolCalls)} = named
            /\ \A k, j \in 1..Len(turn.toolCalls) :
                  turn.toolCalls[k].index = turn.toolCalls[j].index => k = j
            /\ \A k \in 1..Len(turn.toolCalls) :
                  turn.toolCalls[k].arguments =
                      ConcatArguments(of(turn.toolCalls[k].index))

\* C34: the pending table holds an entry only for a request that still awaits
\* its response: every id in messageHandlers belongs to a request whose
\* promise is pending, so a request whose write failed (connection not open,
\* or a non-success status on the write) and whose promise was rejected has
\* no entry left.
C34_PendingTableOnlyAwaiting ==
    \A id \in DOMAIN conn[1].messageHandlers :
        conn[1].messageHandlers[id] # 0 =>
            conn[1].requests[conn[1].messageHandlers[id]].promise = "pending"

\* C35: connects of different servers do not lose each other's registry
\* entries: whatever the interleaving of connectServer and disconnectServer
\* calls on distinct server ids, a server whose connectServer returned true
\* and for which no disconnectServer was called afterwards has its service
\* in the connections map the store holds.
C35_NoRegistryEntryLost ==
    \A i \in RegisteredIds :
        registry.held[i] # 0 =>
            registry.heap[registry.current][i] = registry.held[i]

\* C36: at most one transport is open per server id: whenever the registry
\* refers to a service of a server, no other service made for that server by
\* an earlier connectServer call has its channel open.
C36_OneOpenTransportPerServer ==
    \A id \in ServerIds, s \in Services, t \in Services :
        (/\ GetConnection(id) = t
         /\ s < t
         /\ conn[s].server = id) => conn[s].channel # "open"

\* C37: after WebSocketConnection.disconnect() has returned, the socket is not
\* open again until the program calls connect(): a reconnection timer armed
\* before the disconnect does not reopen the channel.
C37_NoReopenAfterDisconnect ==
    conn[1].disconnected => conn[1].channel # "open"

\* C38: whenever a WebSocketConnection reports connected, the initialize
\* handshake has been completed on the socket that is open, also after an
\* automatic reconnection replaced the socket. Checked once service.connect()
\* has returned: a connection that then reports connected has at least had its
\* initialize request issued and answered.
C38_ConnectedImpliesInitialized ==
    (/\ conn[1].transport = "websocket"
     /\ conn[1].isConnected
     /\ connectCalls[1].pc = "returned")
        => /\ connectCalls[1].req # 0
           /\ conn[1].requests[connectCalls[1].req].promise # "pending"

\* C39: every client held in the orchestrator's module-level connections map
\* is connected: a client whose on-demand connect() returned false is not
\* cached.
C39_CachedClientsConnected ==
    \A i \in 1..MaxListed : listing.cache[i] # "failed"

\* C40: dispatch reaches the server that advertised the tool: for every
\* descriptor getAvailableTools returned for server S and tool T, executeTool
\* on the descriptor's name calls T on the connection of S, whatever the server
\* names are (names holding the separator, and names shared by two servers).
C40_DispatchReachesAdvertiser ==
    listing.dispatched.descriptor # 0 =>
        /\ listing.dispatched.server = listing.tools[listing.dispatched.descriptor].server
        /\ listing.dispatched.tool = listing.tools[listing.dispatched.descriptor].tool

====
